---- MODULE Spec2Model ----
(***************************************************************************)
(* A model of the concurrent networking spine of the LAN file-sharing      *)
(* daemon: the Peer Table and the discovery loops (peer.rs, discovery.rs), *)
(* the Transfer Registry (history.rs), the WebSocket session layer         *)
(* (websocket.rs) and the Transfer Engine (transfer.rs).                   *)
(*                                                                         *)
(* Uuids are modelled as small integers; Uuid::new_v4() is a draw of a     *)
(* value that was never drawn before (nextUuid).  Wall-clock time is in    *)
(* seconds.  Each subsystem has its own specification over the one tuple   *)
(* of variables; the variables of the other subsystems stay unchanged.     *)
(***************************************************************************)
EXTENDS Integers, Sequences, FiniteSets, TLC

VARIABLES
    peers,        \* PeerManager.peers: peer id -> Peer
    now,          \* SystemTime::now() / Utc::now(), seconds
    connections,  \* WebSocketService.connections: the client ids holding a sender
    outq,         \* per client id: every frame sent on its mpsc channel, in order
    lastOp,       \* the handler that ran last and its input (history variable)
    history,      \* WebSocketService.history: TransferHistory {transfers, completed_transfers}
    nextUuid,     \* the next value Uuid::new_v4() returns
    sess,         \* per client id: where handle_socket and its two tasks are
    pending,      \* per client id: the response recv_task holds before pong_tx.send
    ncmd,         \* the number of commands the sessions received
    sendTasks,    \* the tasks SendFile spawned, by transfer id
    bcastTasks,   \* the tasks BroadcastFile spawned, by broadcast id
    scenario,     \* who is at the two ends of the transfer connection
    snd,          \* send_file: its locals and where it is
    rcv,          \* handle_receiver: its locals and where it is
    s2r,          \* the frames written by the sender and not yet read
    r2s,          \* the frames written by the receiver and not yet read
    reads,        \* the number of frames an arbitrary peer was asked for
    permits,      \* the permits the daemon's semaphore has left
    waitq,        \* the tasks suspended in semaphore.acquire, oldest first
    tasks,        \* the daemon's send_file calls and receiver tasks
    nextSweep,    \* cleanup_loop's interval: the time of its next tick
    inbox,        \* per client id: the frames that arrived, and those not yet taken
    locks,        \* the RwLocks of the session layer and of the Peer Table
    ltask         \* the tasks that take those locks, and where each one is

discVars == <<peers, now>>
regVars == <<history, nextUuid>>
sessVars == <<sess, pending, ncmd>>
taskVars == <<sendTasks, bcastTasks>>
xferVars == <<scenario, snd, rcv, s2r, r2s, reads>>
permVars == <<permits, waitq, tasks>>
runtimeVars == <<nextSweep, inbox, locks, ltask>>
daemonVars == <<peers, now, connections, outq, lastOp, history, nextUuid,
                sess, pending, ncmd, sendTasks, bcastTasks>>
vars == <<peers, now, connections, outq, lastOp, history, nextUuid,
          sess, pending, ncmd, sendTasks, bcastTasks,
          scenario, snd, rcv, s2r, r2s, reads, permits, waitq, tasks,
          nextSweep, inbox, locks, ltask>>

(***************************************************************************)
(* Bounds of the model.                                                    *)
(***************************************************************************)
NumClients == 1    \* WebSocket sessions
MaxTime == 30      \* the clock stops here
MaxUuids == 2      \* transfer and broadcast ids drawn
MaxCmds == 3       \* commands the sessions send, in all
MaxHistory == 1    \* TransferHistory.max_history (1000 in the daemon)
MaxBroadcasts == 1 \* broadcast tasks spawned

(***************************************************************************)
(* Program constants.                                                      *)
(***************************************************************************)
StaleTimeoutSecs == 30     \* cleanup_stale_peers(30)
CleanupIntervalSecs == 10  \* interval(Duration::from_secs(10))

local_id == 0
ForeignIds == {1, 2}
Clients == 1..NumClients
Uuids == 1..MaxUuids

\* Option<T>
None == <<>>
Some(x) == <<x>>

RegistryIdle ==
    /\ history = [transfers |-> <<>>, completed_transfers |-> <<>>,
                  max_history |-> MaxHistory]
    /\ nextUuid = 1

RuntimeIdle ==
    /\ nextSweep = 0
    /\ inbox = [c \in Clients |-> [arrived |-> <<>>, waiting |-> <<>>]]
    /\ locks = <<>>
    /\ ltask = <<>>

TransferIdle ==
    /\ permits = 0
    /\ waitq = <<>>
    /\ tasks = <<>>
    /\ scenario = "none"
    /\ snd = [pc |-> "idle"]
    /\ rcv = [pc |-> "idle"]
    /\ s2r = <<>>
    /\ r2s = <<>>
    /\ reads = 0

SessionsIdle ==
    /\ sess = [c \in Clients |-> "new"]
    /\ pending = [c \in Clients |-> None]
    /\ ncmd = 0
    /\ sendTasks = <<>>
    /\ bcastTasks = <<>>

(***************************************************************************)
(* Peer Table (peer.rs)                                                    *)
(***************************************************************************)
Peer(id, address, hostname, last_seen) ==
    [id |-> id, address |-> address, hostname |-> hostname, last_seen |-> last_seen]

\* Peer::from_discovery is called by listen_loop and is not part of peer.rs:
\* a Peer with the advertised fields, last seen now.
from_discovery(id, address, hostname) == Peer(id, address, hostname, now)

get_peer_NeverFound(table, peer_id) == None

\* PeerManager::get_peer
get_peer(table, peer_id) ==
    IF peer_id \in DOMAIN table THEN Some(table[peer_id]) ELSE None

add_or_update_peer_InsertOnly(table, peer) ==
    IF peer.id # local_id /\ peer.id \notin DOMAIN table
    THEN [k \in DOMAIN table \cup {peer.id} |-> IF k = peer.id THEN peer ELSE table[k]]
    ELSE table

\* PeerManager::add_or_update_peer
add_or_update_peer(table, peer) ==
    IF peer.id # local_id
    THEN [k \in DOMAIN table \cup {peer.id} |-> IF k = peer.id THEN peer ELSE table[k]]
    ELSE table

list_peers(table) == {table[k] : k \in DOMAIN table}

cleanup_stale_peers_KeepsAtTimeout(table, timeout_secs) ==
    [k \in {j \in DOMAIN table : now >= table[j].last_seen
                                    /\ now - table[j].last_seen <= timeout_secs} |-> table[k]]

cleanup_stale_peers_SignedElapsed(table, timeout_secs) ==
    [k \in {j \in DOMAIN table : now - table[j].last_seen < timeout_secs} |-> table[k]]

\* retain: duration_since fails when last_seen is after now
cleanup_stale_peers(table, timeout_secs) ==
    LET keep == {k \in DOMAIN table :
                    IF now >= table[k].last_seen
                    THEN now - table[k].last_seen < timeout_secs
                    ELSE FALSE}
    IN [k \in keep |-> table[k]]

(***************************************************************************)
(* Session layer: outbound queues (websocket.rs)                           *)
(***************************************************************************)
\* tx.send(message) for every entry of the connections table
broadcast_to_all(q, message) ==
    [c \in DOMAIN q |-> IF c \in connections THEN Append(q[c], message) ELSE q[c]]

PeerDiscoveredMsg(message) ==
    [type |-> "PeerDiscovered", peer_id |-> message.peer_id,
     address |-> message.address, hostname |-> message.hostname]

PeerRemovedMsg(peer_id) == [type |-> "PeerRemoved", peer_id |-> peer_id]

\* connections.insert(client_id, tx)
add_connection(table, client_id) == table \cup {client_id}

remove_connection_Clears(table, client_id) == {}

\* connections.remove(client_id)
remove_connection(table, client_id) == table \ {client_id}

(***************************************************************************)
(* Transfer Registry (history.rs)                                          *)
(***************************************************************************)
\* TransferRecord::new
TransferRecord_new(transfer_id, peer_id, peer_hostname, file_path, file_size, direction) ==
    [transfer_id |-> transfer_id, peer_id |-> peer_id, peer_hostname |-> peer_hostname,
     file_path |-> file_path, file_size |-> file_size, direction |-> direction,
     status |-> "in_progress", timestamp |-> now, start_time |-> Some(now),
     end_time |-> None, duration_seconds |-> None, speed_bytes_per_sec |-> None,
     file_checksum |-> None, verified |-> FALSE]

\* end.signed_duration_since(start).num_seconds() as u64
DurationSeconds(record, end) == end - record.start_time[1]

\* TransferRecord::complete
TransferRecord_complete(record, checksum, verified) ==
    LET duration == DurationSeconds(record, now)
    IN [record EXCEPT !.status = "completed", !.end_time = Some(now),
                      !.file_checksum = checksum, !.verified = verified,
                      !.duration_seconds = Some(duration),
                      !.speed_bytes_per_sec =
                          IF duration > 0 THEN Some(record.file_size \div duration)
                          ELSE record.speed_bytes_per_sec]

\* TransferRecord::fail
TransferRecord_fail(record) ==
    [record EXCEPT !.status = "failed", !.end_time = Some(now),
                   !.duration_seconds = Some(DurationSeconds(record, now))]

\* TransferRecord::cancel
TransferRecord_cancel(record) ==
    [record EXCEPT !.status = "cancelled", !.end_time = Some(now),
                   !.duration_seconds = Some(DurationSeconds(record, now))]

\* TransferRecord::pause
TransferRecord_pause(record) == [record EXCEPT !.status = "paused"]

\* TransferRecord::resume
TransferRecord_resume(record) == [record EXCEPT !.status = "in_progress"]

\* HashMap::insert
MapInsert(map, key, value) ==
    [k \in DOMAIN map \cup {key} |-> IF k = key THEN value ELSE map[k]]

\* HashMap::remove
MapRemove(map, key) == [k \in DOMAIN map \ {key} |-> map[k]]

PushCompleted_NoEviction(h, record) == Append(h.completed_transfers, record)

PushCompleted_EvictsNewest(h, record) ==
    IF Len(h.completed_transfers) + 1 > h.max_history
    THEN SubSeq(h.completed_transfers, 1, Len(h.completed_transfers) - 1) \o <<record>>
    ELSE Append(h.completed_transfers, record)

\* completed.push(record); if completed.len() > self.max_history { completed.remove(0) }
PushCompleted(h, record) ==
    LET pushed == Append(h.completed_transfers, record)
    IN IF Len(pushed) > h.max_history THEN Tail(pushed) ELSE pushed

\* TransferHistory::start_transfer
start_transfer(h, record) ==
    [h EXCEPT !.transfers = MapInsert(h.transfers, record.transfer_id, record)]

get_transfer_AnyRecord(h, transfer_id) ==
    IF transfer_id \in DOMAIN h.transfers THEN Some(h.transfers[transfer_id])
    ELSE IF \E i \in DOMAIN h.completed_transfers :
                h.completed_transfers[i].transfer_id = transfer_id
         THEN Some(h.completed_transfers[
                  CHOOSE i \in DOMAIN h.completed_transfers :
                      h.completed_transfers[i].transfer_id = transfer_id])
         ELSE None

\* TransferHistory::get_transfer
get_transfer(h, transfer_id) ==
    IF transfer_id \in DOMAIN h.transfers THEN Some(h.transfers[transfer_id]) ELSE None

TakeActive_KeepsRecord(h, transfer_id) == h.transfers

\* transfers.remove(transfer_id), the map that is left
TakeActive(h, transfer_id) == MapRemove(h.transfers, transfer_id)

\* TransferHistory::complete_transfer
complete_transfer(h, transfer_id, checksum, verified) ==
    IF transfer_id \in DOMAIN h.transfers
    THEN [h EXCEPT !.transfers = TakeActive(h, transfer_id),
                   !.completed_transfers =
                       PushCompleted(h, TransferRecord_complete(h.transfers[transfer_id],
                                                                checksum, verified))]
    ELSE h

\* TransferHistory::fail_transfer
fail_transfer(h, transfer_id) ==
    IF transfer_id \in DOMAIN h.transfers
    THEN [h EXCEPT !.transfers = TakeActive(h, transfer_id),
                   !.completed_transfers =
                       PushCompleted(h, TransferRecord_fail(h.transfers[transfer_id]))]
    ELSE h

cancel_transfer_InPlace(h, transfer_id) ==
    IF transfer_id \in DOMAIN h.transfers
    THEN [h EXCEPT !.transfers[transfer_id] = TransferRecord_cancel(@)]
    ELSE h

\* TransferHistory::cancel_transfer
cancel_transfer(h, transfer_id) ==
    IF transfer_id \in DOMAIN h.transfers
    THEN [h EXCEPT !.transfers = TakeActive(h, transfer_id),
                   !.completed_transfers =
                       PushCompleted(h, TransferRecord_cancel(h.transfers[transfer_id]))]
    ELSE h

\* TransferHistory::pause_transfer
pause_transfer(h, transfer_id) ==
    IF transfer_id \in DOMAIN h.transfers
    THEN [h EXCEPT !.transfers[transfer_id] = TransferRecord_pause(@)]
    ELSE h

\* TransferHistory::resume_transfer
resume_transfer(h, transfer_id) ==
    IF transfer_id \in DOMAIN h.transfers
    THEN [h EXCEPT !.transfers[transfer_id] = TransferRecord_resume(@)]
    ELSE h

\* the transfer ids the registry holds a record of
ActiveIds == DOMAIN history.transfers
CompletedIds == {history.completed_transfers[i].transfer_id :
                    i \in 1..Len(history.completed_transfers)}
RegistryIds == ActiveIds \cup CompletedIds

(***************************************************************************)
(* Discovery Service (discovery.rs)                                        *)
(***************************************************************************)
\* (address, hostname) pairs a peer may advertise: a peer that restarts on
\* another interface advertises another address and hostname
Endpoints == {<<"10.0.0.1:7879", "alpha">>, <<"10.0.0.2:7879", "beta">>}

\* DiscoveryMessage
Advertisements ==
    {[peer_id |-> id, address |-> e[1], hostname |-> e[2]] :
        id \in {local_id} \cup ForeignIds, e \in Endpoints}

\* the strings that parse as a SocketAddr
SocketAddrs == {e[1] : e \in Endpoints}

\* datagrams that serde_json::from_slice::<DiscoveryMessage> rejects: a field
\* is missing, the text is no JSON object of the kind, the address is no
\* SocketAddr
Malformed ==
    {[peer_id |-> 1], [garbage |-> TRUE],
     [peer_id |-> 1, address |-> "10.0.0.1", hostname |-> "alpha"]}

Datagrams == Advertisements \cup Malformed

ParseOk_FieldsOnly(dgram) == DOMAIN dgram = {"peer_id", "address", "hostname"}

\* serde_json::from_slice::<DiscoveryMessage>(&buf[..size]).is_ok()
ParseOk(dgram) ==
    /\ DOMAIN dgram = {"peer_id", "address", "hostname"}
    /\ dgram.address \in SocketAddrs

ListenAccepts_NoLocalCheck(message) == TRUE

\* if message.peer_id != peer_manager.local_id()
ListenAccepts(message) == message.peer_id # local_id

listen_loop(dgram) ==
    /\ lastOp' = [op |-> "listen", dgram |-> dgram,
                   peer_id |-> IF ParseOk(dgram) THEN dgram.peer_id ELSE -1]
    /\ IF ParseOk(dgram) /\ ListenAccepts(dgram)
       THEN LET was_new == get_peer(peers, dgram.peer_id) = None
                peer == from_discovery(dgram.peer_id, dgram.address, dgram.hostname)
            IN /\ peers' = add_or_update_peer(peers, peer)
               /\ outq' = IF was_new
                          THEN broadcast_to_all(outq, PeerDiscoveredMsg(dgram))
                          ELSE outq
       ELSE UNCHANGED <<peers, outq>>
    /\ UNCHANGED <<now, connections, regVars, sessVars, taskVars, xferVars, permVars, runtimeVars>>

RECURSIVE NotifyRemoved(_, _)
\* for removed_id in before_peers.difference(&after_peers): notify_peer_removed
\* (ids taken in increasing order; HashSet iteration order is unspecified)
NotifyRemoved(q, removed) ==
    IF removed = {} THEN q
    ELSE LET id == CHOOSE x \in removed : \A y \in removed : x <= y
         IN NotifyRemoved(broadcast_to_all(q, PeerRemovedMsg(id)), removed \ {id})

\* the body of cleanup_loop's loop, after interval.tick()
sweep_and_notify ==
    LET before_peers == DOMAIN peers
        after == cleanup_stale_peers(peers, StaleTimeoutSecs)
        after_peers == DOMAIN after
    IN /\ peers' = after
       /\ outq' = NotifyRemoved(outq, before_peers \ after_peers)
       /\ lastOp' = [op |-> "cleanup"]
       /\ UNCHANGED <<now, connections, regVars, sessVars, taskVars, xferVars, permVars,
                      inbox, locks, ltask>>

\* a turn of cleanup_loop, whenever it comes
cleanup_loop == sweep_and_notify /\ UNCHANGED nextSweep

\* the clock advances (in steps of the cleanup interval)
Tick ==
    /\ now + CleanupIntervalSecs <= MaxTime
    /\ now' = now + CleanupIntervalSecs
    /\ lastOp' = [op |-> "tick"]
    /\ UNCHANGED <<peers, connections, outq, regVars, sessVars, taskVars, xferVars, permVars, runtimeVars>>

\* a session ends: its entry leaves the connections table
SessionEnds(c) ==
    /\ c \in connections
    /\ connections' = remove_connection(connections, c)
    /\ sess' = [sess EXCEPT ![c] = "closed"]
    /\ lastOp' = [op |-> "remove_connection"]
    /\ UNCHANGED <<peers, now, outq, regVars, pending, ncmd, taskVars, xferVars, permVars, runtimeVars>>

InitDiscovery ==
    /\ peers = <<>>
    /\ now = 0
    /\ connections = Clients
    /\ outq = [c \in Clients |-> <<>>]
    /\ lastOp = [op |-> "init"]
    /\ RuntimeIdle
    /\ RegistryIdle
    /\ pending = [c \in Clients |-> None]
    /\ ncmd = 0
    /\ sendTasks = <<>>
    /\ bcastTasks = <<>>
    /\ sess = [c \in Clients |-> "open"]
    /\ TransferIdle

NextDiscovery ==
    \/ \E d \in Datagrams : listen_loop(d)
    \/ cleanup_loop
    \/ Tick
    \/ \E c \in Clients : SessionEnds(c)

SpecDiscovery == InitDiscovery /\ [][NextDiscovery]_vars

\* C1: the local id is never a key of the Peer Table, and ingesting an
\* advertisement whose peer_id is the local id leaves the table unchanged
\* and sends no PeerDiscovered (no session's queue changes).
C1_LocalIdNeverAPeer ==
    /\ [](local_id \notin DOMAIN peers)
    /\ [][(lastOp'.op = "listen" /\ lastOp'.peer_id = local_id)
            => (peers' = peers /\ outq' = outq)]_vars

\* an advertisement of the local id was ingested while peers are known and
\* a session is connected
C1_Witness ==
    /\ lastOp.op = "listen"
    /\ lastOp.peer_id = local_id
    /\ DOMAIN peers # {}
    /\ connections # {}

(***************************************************************************)
(* Session Layer (websocket.rs)                                            *)
(***************************************************************************)
\* the files a client may name: a regular file, a directory, nothing
FilePaths == {"/srv/x.bin", "/srv/dir", "/does/not/exist"}

\* Path::exists
exists(file_path) == file_path \in {"/srv/x.bin", "/srv/dir"}

\* Path::is_file
is_file(file_path) == file_path = "/srv/x.bin"

\* std::fs::metadata(&file_path)?.len()
metadata_len(file_path) == IF is_file(file_path) THEN 3 ELSE 0

\* what TransferService::send_file may return for a path: Ok (TRUE) or Err (FALSE);
\* reading a directory fails, and any send may fail on the network
send_file_results(file_path) == IF is_file(file_path) THEN {TRUE, FALSE} ELSE {FALSE}

ErrorMsg(message) == [type |-> "Error", message |-> message]

FileTransferRequestMsg(transfer_id, peer_id, file_path, file_size) ==
    [type |-> "FileTransferRequest", transfer_id |-> transfer_id, peer_id |-> peer_id,
     file_path |-> file_path, file_size |-> file_size, file_checksum |-> None]

FileTransferErrorMsg(transfer_id, peer_id) ==
    [type |-> "FileTransferError", transfer_id |-> transfer_id, peer_id |-> Some(peer_id)]

BroadcastTransferStartMsg(transfer_id, file_path, file_size, total_peers) ==
    [type |-> "BroadcastTransferStart", transfer_id |-> transfer_id,
     file_path |-> file_path, file_size |-> file_size, total_peers |-> total_peers]

BroadcastTransferProgressMsg(transfer_id, completed_peers, total_peers) ==
    [type |-> "BroadcastTransferProgress", transfer_id |-> transfer_id,
     completed_peers |-> completed_peers, total_peers |-> total_peers]

BroadcastTransferCompleteMsg(transfer_id, successful_peers, failed_peers) ==
    [type |-> "BroadcastTransferComplete", transfer_id |-> transfer_id,
     successful_peers |-> successful_peers, failed_peers |-> failed_peers]

send_to_client_ok_Always(client_id) == TRUE

\* WebSocketService::send_to_client: Ok iff the client is in the connections table
send_to_client_ok(client_id) == client_id \in connections

send_to_client(q, client_id, message) ==
    IF send_to_client_ok(client_id)
    THEN [q EXCEPT ![client_id] = Append(@, message)]
    ELSE q

\* handle_socket up to the spawn of its two tasks
Connect(c) ==
    /\ sess[c] = "new"
    /\ sess' = [sess EXCEPT ![c] = "open"]
    /\ connections' = add_connection(connections, c)
    /\ UNCHANGED <<xferVars, permVars, runtimeVars, discVars, lastOp, outq, regVars, pending, ncmd, taskVars>>

\* recv_task leaves its loop (Close frame, read error or end of stream) between
\* two commands and removes the connection
RecvTaskEnds(c) ==
    /\ sess[c] \in {"open", "writer_gone"}
    /\ pending[c] = None
    /\ sess' = [sess EXCEPT ![c] = "closed"]
    /\ connections' = remove_connection(connections, c)
    /\ UNCHANGED <<xferVars, permVars, runtimeVars, discVars, lastOp, outq, regVars, pending, ncmd, taskVars>>

\* send_task: sender.send(msg) fails; the task removes the connection and ends,
\* dropping the receiving end of the queue
SendTaskEnds(c) ==
    /\ sess[c] = "open"
    /\ sess' = [sess EXCEPT ![c] = "writer_gone"]
    /\ connections' = remove_connection(connections, c)
    /\ UNCHANGED <<xferVars, permVars, runtimeVars, discVars, lastOp, outq, regVars, pending, ncmd, taskVars>>

\* select!: send_task finished, recv_task.abort()
AbortRecvTask(c) ==
    /\ sess[c] = "writer_gone"
    /\ pending[c] # None
    /\ sess' = [sess EXCEPT ![c] = "closed"]
    /\ pending' = [pending EXCEPT ![c] = None]
    /\ UNCHANGED <<xferVars, permVars, runtimeVars, discVars, lastOp, connections, outq, regVars, ncmd, taskVars>>

\* ClientMessage
SendFileCmd(peer_id, file_path) ==
    [type |-> "SendFile", peer_id |-> peer_id, file_path |-> file_path]
BroadcastFileCmd(file_path) == [type |-> "BroadcastFile", file_path |-> file_path]
ControlCmd(type, transfer_id) == [type |-> type, transfer_id |-> transfer_id]

\* recv_task holds the command it took and what handle_client_message returned
\* for it: Ok(Some(response)) or Ok(None); an Err(e) is Some(Error{e})
Handled(c, cmd, response) ==
    [pending EXCEPT ![c] = Some([cmd |-> cmd, response |-> response])]

\* recv_task may take a command: it is running and holds no response
CanDispatch(c) ==
    /\ sess[c] \in {"open", "writer_gone"}
    /\ pending[c] = None
    /\ ncmd < MaxCmds

\* recv_task: pong_tx.send(response); the send fails once send_task is gone
Reply(c) ==
    /\ sess[c] \in {"open", "writer_gone"}
    /\ pending[c] # None
    /\ "response" \in DOMAIN pending[c][1]
    /\ outq' = IF sess[c] = "open" /\ pending[c][1].response # None
               THEN [outq EXCEPT ![c] = Append(@, pending[c][1].response[1])]
               ELSE outq
    /\ pending' = [pending EXCEPT ![c] = None]
    /\ UNCHANGED <<xferVars, permVars, runtimeVars, discVars, lastOp, connections, regVars, sess, ncmd, taskVars>>

SendFileAccepts_ExistsOnly(file_path) == exists(file_path)

\* if file_path.exists() && file_path.is_file()
SendFileAccepts(file_path) == exists(file_path) /\ is_file(file_path)

\* ClientMessage::SendFile
SendFile(c, peer_id, file_path) ==
    /\ CanDispatch(c)
    /\ ncmd' = ncmd + 1
    /\ LET cmd == SendFileCmd(peer_id, file_path) IN
       IF get_peer(peers, peer_id) # None
       THEN IF SendFileAccepts(file_path)
            THEN LET peer == get_peer(peers, peer_id)[1]
                     file_size == metadata_len(file_path)
                     transfer_id == nextUuid
                     history_record ==
                         TransferRecord_new(transfer_id, Some(peer_id), peer.hostname,
                                            file_path, file_size, "sent")
                 IN /\ nextUuid <= MaxUuids
                    /\ nextUuid' = nextUuid + 1
                    /\ history' = start_transfer(history, history_record)
                    /\ sendTasks' = MapInsert(sendTasks, transfer_id,
                           [client |-> c, peer_id |-> peer_id, address |-> peer.address,
                            file_path |-> file_path, pc |-> "send_file", result |-> None,
                            wire_id |-> None])
                    /\ pending' = Handled(c, cmd,
                           Some(FileTransferRequestMsg(transfer_id, peer_id, file_path, file_size)))
            ELSE /\ pending' = Handled(c, cmd, Some(ErrorMsg("File not found or is not a file")))
                 /\ UNCHANGED <<regVars, sendTasks>>
       ELSE /\ pending' = Handled(c, cmd, Some(ErrorMsg("Peer not found")))
            /\ UNCHANGED <<regVars, sendTasks>>
    /\ UNCHANGED <<xferVars, permVars, runtimeVars, discVars, lastOp, connections, outq, sess, bcastTasks>>

\* transfer.rs line 227: the transfer_id send_file draws for its frames, a
\* new random Uuid, unequal to every Uuid drawn before; t is the Uuid
\* SendFile drew for the call's record
send_file_transfer_id(t) == MaxUuids + t

\* the task SendFile spawned: send_file returns, then complete_transfer or fail_transfer
SendTaskFinish(t, ok) ==
    /\ t \in DOMAIN sendTasks
    /\ sendTasks[t].pc = "send_file"
    /\ ok \in send_file_results(sendTasks[t].file_path)
    /\ history' = IF ok THEN complete_transfer(history, t, None, TRUE)
                  ELSE fail_transfer(history, t)
    /\ sendTasks' = [sendTasks EXCEPT ![t].pc = IF ok THEN "done" ELSE "notify_error",
                                      ![t].wire_id = Some(send_file_transfer_id(t)),
                                      ![t].result = Some(ok)]
    /\ UNCHANGED <<xferVars, permVars, runtimeVars, discVars, lastOp, connections, outq, nextUuid, sessVars, bcastTasks>>

\* the task SendFile spawned, Err branch: send_to_client(FileTransferError)
SendTaskNotifyError(t) ==
    /\ t \in DOMAIN sendTasks
    /\ sendTasks[t].pc = "notify_error"
    /\ outq' = send_to_client(outq, sendTasks[t].client,
                              FileTransferErrorMsg(t, sendTasks[t].peer_id))
    /\ sendTasks' = [sendTasks EXCEPT ![t].pc = "done"]
    /\ UNCHANGED <<xferVars, permVars, runtimeVars, discVars, lastOp, connections, regVars, sessVars, bcastTasks>>

\* the orders in which HashMap::values may yield the peers
PeerLists(table) ==
    {l \in [1..Cardinality(DOMAIN table) -> list_peers(table)] :
        \A i, j \in DOMAIN l : i # j => l[i] # l[j]}

\* ClientMessage::BroadcastFile
BroadcastFile(c, file_path) ==
    /\ CanDispatch(c)
    /\ ncmd' = ncmd + 1
    /\ LET cmd == BroadcastFileCmd(file_path) IN
       IF ~exists(file_path)
       THEN /\ pending' = Handled(c, cmd, Some(ErrorMsg("File not found")))
            /\ UNCHANGED <<outq, nextUuid, bcastTasks>>
       ELSE \E peer_list \in PeerLists(peers) :
            LET file_size == metadata_len(file_path)
                broadcast_id == nextUuid
                total_peers == Len(peer_list)
                start_msg == BroadcastTransferStartMsg(broadcast_id, file_path,
                                                       file_size, total_peers)
            IN /\ nextUuid <= MaxUuids
               /\ nextUuid' = nextUuid + 1
               /\ IF total_peers = 0
                  THEN /\ pending' = Handled(c, cmd,
                              Some(ErrorMsg("No peers available for broadcast")))
                       /\ UNCHANGED <<outq, bcastTasks>>
                  ELSE IF ~send_to_client_ok(c)
                  THEN /\ pending' = Handled(c, cmd, Some(ErrorMsg("Client not found")))
                       /\ UNCHANGED <<outq, bcastTasks>>
                  ELSE /\ Cardinality(DOMAIN bcastTasks) < MaxBroadcasts
                       /\ outq' = send_to_client(outq, c, start_msg)
                       /\ bcastTasks' = MapInsert(bcastTasks, broadcast_id,
                              [client |-> c, file_path |-> file_path, peer_list |-> peer_list,
                               total_peers |-> total_peers, successful |-> 0, failed |-> 0,
                               completed |-> 0, pc |-> "send_file"])
                       /\ pending' = Handled(c, cmd, None)
    /\ UNCHANGED <<xferVars, permVars, runtimeVars, discVars, lastOp, connections, history, sess, sendTasks>>

AfterSendFile_NoErrorEvent(ok) == "progress"

\* match result: the Err arm sends a FileTransferError before the progress
AfterSendFile(ok) == IF ok THEN "progress" ELSE "error"

\* the broadcast task: send_file to the next peer returns; completed += 1 and
\* successful += 1 or failed += 1
BcastSendFile(b, ok) ==
    /\ b \in DOMAIN bcastTasks
    /\ bcastTasks[b].pc = "send_file"
    /\ ok \in send_file_results(bcastTasks[b].file_path)
    /\ bcastTasks' = [bcastTasks EXCEPT
           ![b].completed = @ + 1,
           ![b].successful = IF ok THEN @ + 1 ELSE @,
           ![b].failed = IF ok THEN @ ELSE @ + 1,
           ![b].pc = AfterSendFile(ok)]
    /\ UNCHANGED <<xferVars, permVars, runtimeVars, discVars, lastOp, connections, outq, regVars, sessVars, sendTasks>>

\* the broadcast task, Err branch: send_to_client(FileTransferError)
BcastNotifyError(b) ==
    /\ b \in DOMAIN bcastTasks
    /\ bcastTasks[b].pc = "error"
    /\ outq' = send_to_client(outq, bcastTasks[b].client,
           FileTransferErrorMsg(b, bcastTasks[b].peer_list[bcastTasks[b].completed].id))
    /\ bcastTasks' = [bcastTasks EXCEPT ![b].pc = "progress"]
    /\ UNCHANGED <<xferVars, permVars, runtimeVars, discVars, lastOp, connections, regVars, sessVars, sendTasks>>

ProgressCount_Successful(task) == task.successful

\* completed_peers: completed
ProgressCount(task) == task.completed

\* the broadcast task: send_to_client(BroadcastTransferProgress), next peer
BcastProgress(b) ==
    /\ b \in DOMAIN bcastTasks
    /\ bcastTasks[b].pc = "progress"
    /\ outq' = send_to_client(outq, bcastTasks[b].client,
           BroadcastTransferProgressMsg(b, ProgressCount(bcastTasks[b]),
                                        bcastTasks[b].total_peers))
    /\ bcastTasks' = [bcastTasks EXCEPT ![b].pc =
           IF bcastTasks[b].completed < Len(bcastTasks[b].peer_list)
           THEN "send_file" ELSE "complete"]
    /\ UNCHANGED <<xferVars, permVars, runtimeVars, discVars, lastOp, connections, regVars, sessVars, sendTasks>>

\* the broadcast task after the loop: send_to_client(BroadcastTransferComplete)
BcastComplete(b) ==
    /\ b \in DOMAIN bcastTasks
    /\ bcastTasks[b].pc = "complete"
    /\ outq' = send_to_client(outq, bcastTasks[b].client,
           BroadcastTransferCompleteMsg(b, bcastTasks[b].successful, bcastTasks[b].failed))
    /\ bcastTasks' = [bcastTasks EXCEPT ![b].pc = "done"]
    /\ UNCHANGED <<xferVars, permVars, runtimeVars, discVars, lastOp, connections, regVars, sessVars, sendTasks>>

\* ClientMessage::CancelTransfer
CancelTransfer(c, transfer_id) ==
    /\ CanDispatch(c)
    /\ ncmd' = ncmd + 1
    /\ history' = cancel_transfer(history, transfer_id)
    /\ pending' = Handled(c, ControlCmd("CancelTransfer", transfer_id),
           Some([type |-> "TransferCancelled", transfer_id |-> transfer_id]))
    /\ UNCHANGED <<xferVars, permVars, runtimeVars, discVars, lastOp, connections, outq, nextUuid, sess, taskVars>>

\* ClientMessage::PauseTransfer
PauseTransfer(c, transfer_id) ==
    /\ CanDispatch(c)
    /\ ncmd' = ncmd + 1
    /\ history' = pause_transfer(history, transfer_id)
    /\ pending' = Handled(c, ControlCmd("PauseTransfer", transfer_id),
           Some([type |-> "TransferPaused", transfer_id |-> transfer_id]))
    /\ UNCHANGED <<xferVars, permVars, runtimeVars, discVars, lastOp, connections, outq, nextUuid, sess, taskVars>>

\* ClientMessage::ResumeTransfer
ResumeTransfer(c, transfer_id) ==
    /\ CanDispatch(c)
    /\ ncmd' = ncmd + 1
    /\ history' = resume_transfer(history, transfer_id)
    /\ pending' = Handled(c, ControlCmd("ResumeTransfer", transfer_id),
           Some([type |-> "TransferResumed", transfer_id |-> transfer_id]))
    /\ UNCHANGED <<xferVars, permVars, runtimeVars, discVars, lastOp, connections, outq, nextUuid, sess, taskVars>>

\* the Peer Tables the discovery loops may have built when the sessions start
PeerTables ==
    {[id \in D |-> Peer(id, "10.0.0.1:7879", "alpha", 0)] : D \in {{}, {1}, {1, 2}}}

InitSession ==
    /\ peers \in PeerTables
    /\ now = 0
    /\ connections = {}
    /\ outq = [c \in Clients |-> <<>>]
    /\ lastOp = [op |-> "init"]
    /\ RuntimeIdle
    /\ RegistryIdle
    /\ SessionsIdle
    /\ TransferIdle

SessionLifecycle ==
    \/ \E c \in Clients : Connect(c)
    \/ \E c \in Clients : RecvTaskEnds(c)
    \/ \E c \in Clients : SendTaskEnds(c)
    \/ \E c \in Clients : AbortRecvTask(c)
    \/ \E c \in Clients : Reply(c)

NextSendFile ==
    \/ SessionLifecycle
    \/ \E c \in Clients, peer_id \in ForeignIds, file_path \in FilePaths :
           SendFile(c, peer_id, file_path)
    \/ \E c \in Clients, transfer_id \in Uuids : CancelTransfer(c, transfer_id)
    \/ \E c \in Clients, transfer_id \in Uuids : PauseTransfer(c, transfer_id)
    \/ \E c \in Clients, transfer_id \in Uuids : ResumeTransfer(c, transfer_id)
    \/ \E t \in Uuids, ok \in BOOLEAN : SendTaskFinish(t, ok)
    \/ \E t \in Uuids : SendTaskNotifyError(t)

SpecSendFile == InitSession /\ [][NextSendFile]_vars

NextBroadcast ==
    \/ SessionLifecycle
    \/ \E c \in Clients, file_path \in FilePaths : BroadcastFile(c, file_path)
    \/ \E b \in Uuids, ok \in BOOLEAN : BcastSendFile(b, ok)
    \/ \E b \in Uuids : BcastNotifyError(b)
    \/ \E b \in Uuids : BcastProgress(b)
    \/ \E b \in Uuids : BcastComplete(b)

SpecBroadcast == InitSession /\ [][NextBroadcast]_vars

(***************************************************************************)
(* Properties of the registry and the session layer                        *)
(***************************************************************************)
\* the number of records of the completed sequence bearing an id
CompletedCount(id) ==
    Cardinality({i \in 1..Len(history.completed_transfers) :
                    history.completed_transfers[i].transfer_id = id})

\* C2: for any transfer_id, the active map and the completed sequence hold
\* together at most one record bearing it (so at most one in the completed
\* sequence), whatever the interleaving of start, complete, fail, cancel,
\* pause and resume.
C2_AtMostOneRecordPerId ==
    \A id \in Uuids :
        (IF id \in ActiveIds THEN 1 ELSE 0) + CompletedCount(id) <= 1

\* a CancelTransfer raced the send task: the record was cancelled and the
\* task's complete/fail came afterwards
C2_Witness ==
    \E t \in DOMAIN sendTasks :
        /\ sendTasks[t].pc = "done"
        /\ \E i \in 1..Len(history.completed_transfers) :
               /\ history.completed_transfers[i].transfer_id = t
               /\ history.completed_transfers[i].status = "cancelled"

\* the frame a step appended to the queue of client c, if it appended one
Enqueued(c) ==
    IF Len(outq'[c]) = Len(outq[c]) + 1 /\ SubSeq(outq'[c], 1, Len(outq[c])) = outq[c]
    THEN Some(outq'[c][Len(outq'[c])])
    ELSE None

TransferNotifications ==
    {"FileTransferProgress", "FileTransferError", "FileTransferComplete"}

\* C3: every FileTransferProgress, FileTransferError or FileTransferComplete
\* the daemon enqueues carries a transfer_id the Transfer Registry holds
\* (active or completed) when it is enqueued.
C3_NotificationIdRegistered ==
    [][\A c \in Clients :
          (Enqueued(c) # None /\ Enqueued(c)[1].type \in TransferNotifications)
              => Enqueued(c)[1].transfer_id \in RegistryIds]_vars

BroadcastEvents ==
    {"BroadcastTransferStart", "BroadcastTransferProgress", "BroadcastTransferComplete"}

\* the Broadcast* frames of broadcast b on the queue of client c, in order
BcastEventsOf(c, b) ==
    LET IsEvent(m) == m.type \in BroadcastEvents /\ m.transfer_id = b
    IN SelectSeq(outq[c], IsEvent)

\* C8: for a broadcast to N >= 1 peers whose session stays connected, the
\* session's queue receives one BroadcastTransferStart with total_peers = N,
\* then BroadcastTransferProgress with completed_peers 1, 2, ..., N, then
\* one BroadcastTransferComplete with successful_peers + failed_peers = N,
\* and nothing else of that broadcast; all of them once the task is done.
C8_BroadcastEventOrder ==
    \A b \in DOMAIN bcastTasks :
        LET task == bcastTasks[b]
            N == task.total_peers
            ev == BcastEventsOf(task.client, b)
        IN task.client \in connections =>
            /\ N >= 1
            /\ N = Cardinality(DOMAIN peers)
            /\ Len(ev) >= 1
            /\ Len(ev) <= N + 2
            /\ ev[1].type = "BroadcastTransferStart"
            /\ ev[1].total_peers = N
            /\ \A i \in 2..Len(ev) :
                   IF i <= N + 1
                   THEN /\ ev[i].type = "BroadcastTransferProgress"
                        /\ ev[i].completed_peers = i - 1
                   ELSE /\ ev[i].type = "BroadcastTransferComplete"
                        /\ ev[i].successful_peers + ev[i].failed_peers = N
            /\ task.pc = "done" => Len(ev) = N + 2

\* a broadcast to two peers, one send failed and one succeeded, ran to its
\* end with the session connected
C8_Witness ==
    \E b \in DOMAIN bcastTasks :
        /\ bcastTasks[b].pc = "done"
        /\ bcastTasks[b].client \in connections
        /\ bcastTasks[b].total_peers = 2
        /\ bcastTasks[b].successful = 1
        /\ bcastTasks[b].failed = 1

\* C9: after a SendFile whose send succeeded, the initiating session (still
\* connected, its reply enqueued) has on its queue the FileTransferRequest
\* echo of the transfer_id and, later, a FileTransferComplete for it.
C9_SuccessTerminalEvent ==
    \A t \in DOMAIN sendTasks :
        LET c == sendTasks[t].client
        IN (/\ sendTasks[t].pc = "done"
            /\ sendTasks[t].result = Some(TRUE)
            /\ c \in connections
            /\ pending[c] = None)
           => \E i, j \in 1..Len(outq[c]) :
                 /\ i < j
                 /\ outq[c][i].type = "FileTransferRequest"
                 /\ outq[c][i].transfer_id = t
                 /\ outq[c][j].type = "FileTransferComplete"
                 /\ outq[c][j].transfer_id = t

\* a SendFile naming a known peer and a path that is no regular file
BadSendFile(cmd) ==
    /\ cmd.type = "SendFile"
    /\ cmd.peer_id \in DOMAIN peers
    /\ ~(exists(cmd.file_path) /\ is_file(cmd.file_path))

\* C10: a SendFile naming a known peer and a path that does not exist or is
\* no regular file creates no Transfer Record, spawns no send task and
\* enqueues nothing while it is handled; its response is an Error, which
\* recv_task then enqueues once, on that session only.
C10_MissingFileRejected ==
    [][\A c \in Clients :
          /\ (pending[c] = None /\ pending'[c] # None /\ BadSendFile(pending'[c][1].cmd))
                => /\ pending'[c][1].response # None
                   /\ pending'[c][1].response[1].type = "Error"
                   /\ history' = history
                   /\ sendTasks' = sendTasks
                   /\ outq' = outq
          /\ (pending[c] # None /\ BadSendFile(pending[c][1].cmd)
                /\ pending'[c] = None /\ sess[c] = "open")
                => /\ outq'[c] = Append(outq[c], pending[c][1].response[1])
                   /\ \A d \in Clients \ {c} : outq'[d] = outq[d]
                   /\ history' = history
                   /\ sendTasks' = sendTasks]_vars

\* the Error of such a SendFile is the only frame on the session's queue, and
\* there is no record and no task
C10_Witness ==
    \E c \in Clients :
        /\ outq[c] = <<ErrorMsg("File not found or is not a file")>>
        /\ DOMAIN peers # {}
        /\ RegistryIds = {}
        /\ sendTasks = <<>>

-----------------------------------------------------------------------------
\* The Transfer Engine: one connection between a send_file call and a
\* handle_receiver task.  A file is a sequence of bytes; the daemons' chunk
\* size is a configuration value, here ChunkSize.

MaxFileLen == 3
ChunkSize == 2
MaxRogueReads == 4

Bytes == {0, 1}

FilesOfLen(n) == [1..n -> Bytes]

Files == UNION {FilesOfLen(n) : n \in 0..MaxFileLen}

Min(a, b) == IF a < b THEN a ELSE b

\* Sha256 as a running digest: the state after new() and the state after
\* update(data), which folds the bytes in one at a time; on the files of this
\* model the fold has no collisions
Sha256_new == 0

RECURSIVE Sha256_update(_, _)
Sha256_update(hasher, data) ==
    IF data = <<>> THEN hasher
    ELSE Sha256_update((hasher * 3 + Head(data) + 1) % 100003, Tail(data))

hex_encode(hash) == [hex |-> hash]

\* utils::calculate_file_checksum: the file read to its end and hashed
calculate_file_checksum(contents) == hex_encode(Sha256_update(Sha256_new, contents))

\* the messages of the transfer protocol
RequestMsg(transfer_id, file_size, file_checksum) ==
    [type |-> "Request", transfer_id |-> transfer_id, file_size |-> file_size,
     file_checksum |-> file_checksum]

AcceptMsg(transfer_id) == [type |-> "Accept", transfer_id |-> transfer_id]

RejectMsg(transfer_id) == [type |-> "Reject", transfer_id |-> transfer_id]

ChunkMsg(transfer_id, chunk_index, data) ==
    [type |-> "Chunk", transfer_id |-> transfer_id, chunk_index |-> chunk_index,
     data |-> data]

CompleteMsg(transfer_id, file_checksum) ==
    [type |-> "Complete", transfer_id |-> transfer_id, file_checksum |-> file_checksum]

CancelMsg(transfer_id) == [type |-> "Cancel", transfer_id |-> transfer_id]

PauseMsg(transfer_id) == [type |-> "Pause", transfer_id |-> transfer_id]

\* write_message puts one line of JSON on the stream; read_message takes one
\* line off it and parses it, which fails on a line that is no message and on
\* the empty line a closed stream yields
to_string(message) == [json |-> message]

GarbageLine == [text |-> "not json"]

EofLine == [text |-> ""]

from_str(line) == IF "json" \in DOMAIN line THEN Some(line.json) ELSE None

SndTerminal == snd.pc \in {"ok", "err"}

RcvTerminal == rcv.pc \in {"done", "cancelled", "ignored", "err"}

RcvWantsMessage ==
    \/ rcv.pc = "request"
    \/ rcv.pc = "loop" /\ rcv.received_size < rcv.file_size

\* send_file ------------------------------------------------------------------

SndFail(error) == snd' = [snd EXCEPT !.pc = "err", !.result = error]

\* lines 231-242: the checksum, the open and the metadata of the file
SndPrepare(ok) ==
    /\ snd.pc = "prepare"
    /\ IF ok
       THEN snd' = [snd EXCEPT !.pc = "connect",
                               !.file_checksum = Some(calculate_file_checksum(snd.file)),
                               !.file_size = Len(snd.file)]
       ELSE SndFail("io")
    /\ UNCHANGED <<daemonVars, permVars, runtimeVars, scenario, rcv, s2r, r2s, reads>>

\* lines 245-248: the connection, within ten seconds
SndConnect(ok) ==
    /\ snd.pc = "connect"
    /\ IF ok
       THEN snd' = [snd EXCEPT !.pc = "request", !.connected = TRUE]
       ELSE SndFail("connect")
    /\ UNCHANGED <<daemonVars, permVars, runtimeVars, scenario, rcv, s2r, r2s, reads>>

\* lines 252-260
SndWriteRequest ==
    /\ snd.pc = "request"
    /\ s2r' = Append(s2r, to_string(RequestMsg(snd.transfer_id, snd.file_size,
                                                snd.file_checksum)))
    /\ snd' = [snd EXCEPT !.pc = "response",
                           !.sent = Append(@, RequestMsg(snd.transfer_id, snd.file_size,
                                                         snd.file_checksum))]
    /\ UNCHANGED <<daemonVars, permVars, runtimeVars, scenario, rcv, r2s, reads>>

\* return Err(..) after a response was read
SndRefuse(error, response) ==
    snd' = [snd EXCEPT !.pc = "err", !.result = error, !.response = Some(response)]

AcceptMatches_Any(tid) == TRUE

\* line 269: the Accept is for this transfer
AcceptMatches(tid) == tid = snd.transfer_id

\* lines 267-291: what send_file does with the line it read as the response
SndHandleResponse(line) ==
    LET response == from_str(line) IN
    IF response = None THEN SndRefuse("parse", response)
    ELSE IF response[1].type = "Accept"
    THEN IF ~AcceptMatches(response[1].transfer_id)
         THEN SndRefuse("Transfer ID mismatch", response)
         ELSE snd' = [snd EXCEPT !.pc = "stream",
                                 !.response = Some(response),
                                 !.buffer = [i \in 1..ChunkSize |-> 0],
                                 !.chunk_index = 0,
                                 !.sent_size = 0,
                                 !.offset = 0]
    ELSE IF response[1].type = "Reject"
    THEN SndRefuse("Transfer rejected by peer", response)
    ELSE SndRefuse("Unexpected response", response)

\* the replies of a peer that is no daemon of this program
RogueResponses ==
    {to_string(AcceptMsg(u)) : u \in Uuids}
        \cup {to_string(RejectMsg(u)) : u \in Uuids}
        \cup {to_string(CancelMsg(u)) : u \in Uuids}
        \cup {GarbageLine, EofLine}

\* lines 262-265, from the receiver of this program
SndReadResponse ==
    /\ snd.pc = "response"
    /\ scenario = "honest"
    /\ \/ /\ r2s # <<>>
          /\ SndHandleResponse(Head(r2s))
          /\ r2s' = Tail(r2s)
       \/ /\ r2s = <<>>
          /\ RcvTerminal
          /\ SndHandleResponse(EofLine)
          /\ r2s' = r2s
    /\ UNCHANGED <<daemonVars, permVars, runtimeVars, scenario, rcv, s2r, reads>>

\* lines 262-265, from any other peer
SndReadRogueResponse(line) ==
    /\ snd.pc = "response"
    /\ scenario = "rogue_receiver"
    /\ SndHandleResponse(line)
    /\ UNCHANGED <<daemonVars, permVars, runtimeVars, scenario, rcv, s2r, r2s, reads>>

\* line 262: thirty seconds without a response
SndResponseTimeout ==
    /\ snd.pc = "response"
    /\ r2s = <<>>
    /\ ~RcvTerminal
    /\ SndFail("timeout")
    /\ UNCHANGED <<daemonVars, permVars, runtimeVars, scenario, rcv, s2r, r2s, reads>>

file_read_OneByte(contents, offset) == Min(1, Len(contents) - offset)

\* line 294: file.read fills the buffer from the current offset
file_read(contents, offset) == Min(ChunkSize, Len(contents) - offset)

ReadInto(buffer, contents, offset, n) ==
    [i \in 1..ChunkSize |-> IF i <= n THEN contents[offset + i] ELSE buffer[i]]

chunk_data_WholeBuffer(buffer, n) == buffer

\* line 302: buffer[..n]
chunk_data(buffer, n) == SubSeq(buffer, 1, n)

\* lines 293-327: one turn of the loop
SndChunk ==
    /\ snd.pc = "stream"
    /\ LET n == file_read(snd.file, snd.offset)
           buffer == ReadInto(snd.buffer, snd.file, snd.offset, n)
       IN IF n = 0
          THEN /\ snd' = [snd EXCEPT !.pc = "complete"]
               /\ s2r' = s2r
          ELSE /\ s2r' = Append(s2r, to_string(ChunkMsg(snd.transfer_id, snd.chunk_index,
                                                        chunk_data(buffer, n))))
               /\ snd' = [snd EXCEPT !.buffer = buffer,
                                     !.sent = Append(@, ChunkMsg(snd.transfer_id,
                                                                 snd.chunk_index,
                                                                 chunk_data(buffer, n))),
                                     !.offset = @ + n,
                                     !.sent_size = @ + n,
                                     !.chunk_index = @ + 1]
    /\ UNCHANGED <<daemonVars, permVars, runtimeVars, scenario, rcv, r2s, reads>>

\* lines 329-350
SndComplete ==
    /\ snd.pc = "complete"
    /\ s2r' = Append(s2r, to_string(CompleteMsg(snd.transfer_id, snd.file_checksum)))
    /\ snd' = [snd EXCEPT !.pc = "ok", !.result = "ok",
                           !.sent = Append(@, CompleteMsg(snd.transfer_id, snd.file_checksum))]
    /\ UNCHANGED <<daemonVars, permVars, runtimeVars, scenario, rcv, r2s, reads>>

\* a write to the stream or a read of the file that fails (lines 260, 291,
\* 294, 305, 333)
SndIoError ==
    /\ snd.pc \in {"request", "stream", "complete"}
    /\ SndFail("io")
    /\ UNCHANGED <<daemonVars, permVars, runtimeVars, scenario, rcv, s2r, r2s, reads>>

\* handle_receiver ------------------------------------------------------------

RcvFail(error) == rcv' = [rcv EXCEPT !.pc = "err", !.error = error]

\* lines 76-84 and 107: the listener accepts the connection and spawns the
\* receiver, which takes its permit
AcceptConnection ==
    /\ rcv.pc = "listen"
    /\ scenario = "honest" => snd.connected
    /\ rcv' = [rcv EXCEPT !.pc = "request"]
    /\ UNCHANGED <<daemonVars, permVars, runtimeVars, scenario, snd, s2r, r2s, reads>>

\* the message read_message returned, and how many it has returned so far
Read(receiver, line) == [n |-> receiver.last_read.n + 1, message |-> from_str(line)[1]]

\* lines 112-133 and 216: the first message
RcvHandleRequest(line) ==
    LET message == from_str(line) IN
    IF message = None
    THEN RcvFail("parse") /\ r2s' = r2s
    ELSE IF message[1].type = "Request"
    THEN /\ rcv' = [rcv EXCEPT !.last_read = Read(rcv, line), !.pc = "loop",
                               !.transfer_id = message[1].transfer_id,
                               !.file_size = message[1].file_size,
                               !.expected_checksum = message[1].file_checksum,
                               !.created = TRUE,
                               !.written = <<>>,
                               !.received_size = 0,
                               !.chunk_index = 0,
                               !.hasher = Sha256_new]
         /\ r2s' = Append(r2s, to_string(AcceptMsg(message[1].transfer_id)))
    ELSE rcv' = [rcv EXCEPT !.last_read = Read(rcv, line), !.pc = "ignored"] /\ r2s' = r2s

ChunkAccepted_IdOnly(message) == message.transfer_id = rcv.transfer_id

\* line 147
ChunkAccepted(message) ==
    message.transfer_id = rcv.transfer_id /\ message.chunk_index = rcv.chunk_index

\* lines 136-187: one turn of the loop
RcvHandleChunk(line) ==
    LET chunk_msg == from_str(line) IN
    /\ r2s' = r2s
    /\ IF chunk_msg = None THEN RcvFail("parse")
       ELSE LET m == chunk_msg[1] IN
            CASE m.type = "Chunk" ->
                    IF ChunkAccepted(m)
                    THEN rcv' = [rcv EXCEPT !.last_read = Read(rcv, line),
                                            !.written = @ \o m.data,
                                            !.hasher = Sha256_update(@, m.data),
                                            !.received_size = @ + Len(m.data),
                                            !.chunk_index = @ + 1]
                    ELSE rcv' = [rcv EXCEPT !.last_read = Read(rcv, line)]
              [] m.type = "Complete" ->
                    IF m.transfer_id = rcv.transfer_id
                    THEN rcv' = [rcv EXCEPT !.last_read = Read(rcv, line),
                                            !.pc = "finalize", !.complete_read = TRUE]
                    ELSE rcv' = [rcv EXCEPT !.last_read = Read(rcv, line)]
              [] m.type = "Cancel" ->
                    IF m.transfer_id = rcv.transfer_id
                    THEN rcv' = [rcv EXCEPT !.last_read = Read(rcv, line), !.pc = "cancelled"]
                    ELSE rcv' = [rcv EXCEPT !.last_read = Read(rcv, line)]
              [] OTHER -> rcv' = [rcv EXCEPT !.last_read = Read(rcv, line)]

RcvHandle(line) ==
    IF rcv.pc = "request" THEN RcvHandleRequest(line) ELSE RcvHandleChunk(line)

\* lines 110 and 136-139, the peer being send_file
RcvRead ==
    /\ RcvWantsMessage
    /\ scenario = "honest"
    /\ \/ /\ s2r # <<>>
          /\ RcvHandle(Head(s2r))
          /\ s2r' = Tail(s2r)
       \/ /\ s2r = <<>>
          /\ SndTerminal
          /\ RcvHandle(EofLine)
          /\ s2r' = s2r
    /\ UNCHANGED <<daemonVars, permVars, runtimeVars, scenario, snd, reads>>

\* the lines of a peer that is no daemon of this program
RogueChunks == {<<1>>, <<1, 0>>}

RogueLines ==
    {to_string(RequestMsg(1, n, ck)) :
        n \in {0, 2},
        ck \in {None, Some(calculate_file_checksum(<<1, 0>>)),
                Some(calculate_file_checksum(<<0>>))}}
        \cup {to_string(ChunkMsg(u, i, d)) : u \in Uuids, i \in {0, 1}, d \in RogueChunks}
        \cup {to_string(CompleteMsg(u, None)) : u \in Uuids}
        \cup {to_string(CancelMsg(u)) : u \in Uuids}
        \cup {to_string(PauseMsg(1)), GarbageLine, EofLine}

\* lines 110 and 136-139, the peer being any other program
RcvReadRogue(line) ==
    /\ RcvWantsMessage
    /\ scenario = "rogue_sender"
    /\ reads < MaxRogueReads
    /\ reads' = reads + 1
    /\ RcvHandle(line)
    /\ UNCHANGED <<daemonVars, permVars, runtimeVars, scenario, snd, s2r>>

\* lines 110 and 136: thirty, then sixty seconds without a message
RcvTimeout ==
    /\ RcvWantsMessage
    /\ s2r = <<>>
    /\ ~SndTerminal
    /\ RcvFail("timeout")
    /\ UNCHANGED <<daemonVars, permVars, runtimeVars, scenario, snd, s2r, r2s, reads>>

checksum_verified_Always(calculated_checksum, expected_checksum) == TRUE

checksum_verified_OnlyWithoutChecksum(calculated_checksum, expected_checksum) ==
    expected_checksum = None

\* lines 194-198
checksum_verified(calculated_checksum, expected_checksum) ==
    IF expected_checksum # None
    THEN calculated_checksum = expected_checksum[1]
    ELSE TRUE

\* lines 190-198: the loop is over, by its condition or by the break
RcvFinalize ==
    /\ \/ rcv.pc = "finalize"
       \/ rcv.pc = "loop" /\ ~(rcv.received_size < rcv.file_size)
    /\ LET calculated_checksum == hex_encode(rcv.hasher) IN
       rcv' = [rcv EXCEPT !.pc = "done",
                          !.calculated_checksum = Some(calculated_checksum),
                          !.verified = Some(checksum_verified(calculated_checksum,
                                                              rcv.expected_checksum))]
    /\ UNCHANGED <<daemonVars, permVars, runtimeVars, scenario, snd, s2r, r2s, reads>>

\* a create, write or sync that fails (lines 121-128, 148, 190)
RcvIoError ==
    /\ rcv.pc \in {"loop", "finalize"}
    /\ RcvFail("io")
    /\ UNCHANGED <<daemonVars, permVars, runtimeVars, scenario, snd, s2r, r2s, reads>>

\* ----------------------------------------------------------------------------

SenderAt(pc, transfer_id, contents) ==
    [pc |-> pc, transfer_id |-> transfer_id, file |-> contents,
     file_checksum |-> None, file_size |-> 0, connected |-> FALSE,
     buffer |-> <<>>, offset |-> 0, chunk_index |-> 0, sent_size |-> 0,
     sent |-> <<>>, response |-> None, result |-> "none"]

ReceiverAt(pc) ==
    [pc |-> pc, transfer_id |-> 0, file_size |-> 0, expected_checksum |-> None,
     created |-> FALSE, written |-> <<>>, received_size |-> 0, chunk_index |-> 0,
     hasher |-> Sha256_new, calculated_checksum |-> None, verified |-> None,
     complete_read |-> FALSE, error |-> "none",
     last_read |-> [n |-> 0, message |-> None]]

InitTransfer ==
    /\ peers = <<>>
    /\ now = 0
    /\ connections = {}
    /\ outq = [c \in Clients |-> <<>>]
    /\ lastOp = [op |-> "init"]
    /\ RuntimeIdle
    /\ RegistryIdle
    /\ SessionsIdle
    /\ scenario \in {"honest", "rogue_sender", "rogue_receiver"}
    /\ \E transfer_id \in Uuids, contents \in Files :
          snd = IF scenario = "rogue_sender"
                THEN [pc |-> "idle"]
                ELSE SenderAt("prepare", transfer_id, contents)
    /\ rcv = IF scenario = "rogue_receiver" THEN [pc |-> "idle"] ELSE ReceiverAt("listen")
    /\ s2r = <<>>
    /\ r2s = <<>>
    /\ reads = 0
    /\ permits = 0
    /\ waitq = <<>>
    /\ tasks = <<>>

NextTransfer ==
    \/ \E ok \in BOOLEAN : SndPrepare(ok)
    \/ \E ok \in BOOLEAN : SndConnect(ok)
    \/ SndWriteRequest
    \/ SndReadResponse
    \/ \E line \in RogueResponses : SndReadRogueResponse(line)
    \/ SndResponseTimeout
    \/ SndChunk
    \/ SndComplete
    \/ SndIoError
    \/ AcceptConnection
    \/ RcvRead
    \/ \E line \in RogueLines : RcvReadRogue(line)
    \/ RcvTimeout
    \/ RcvFinalize
    \/ RcvIoError

SpecTransfer == InitTransfer /\ [][NextTransfer]_vars

\* C4: when send_file and handle_receiver of this program share a connection
\* and the receiver finishes, the bytes it wrote are the bytes of the source
\* file, and the checksum it calculated is the one the sender computed
\* beforehand and put in its Request.
C4_HonestTransferIsFaithful ==
    (scenario = "honest" /\ rcv.pc = "done")
        => /\ rcv.written = snd.file
           /\ rcv.expected_checksum = snd.file_checksum
           /\ rcv.calculated_checksum = snd.file_checksum
           /\ snd.file_checksum = Some(calculate_file_checksum(snd.file))

\* a file of two chunks, the last one short, has been received
C4_Witness ==
    /\ scenario = "honest"
    /\ rcv.pc = "done"
    /\ Len(snd.file) > ChunkSize
    /\ Len(snd.file) % ChunkSize # 0
    /\ rcv.written = snd.file
    /\ 1 \in {snd.file[i] : i \in 1..Len(snd.file)}

\* C5: a receive that reaches its finalisation reports verified = true when
\* the Request carried no checksum, and otherwise reports verified exactly
\* when the checksum of the bytes it wrote equals the advertised one.
C5_VerifiedIffChecksumsAgree ==
    rcv.pc = "done"
        => /\ rcv.verified # None
           /\ rcv.calculated_checksum = Some(calculate_file_checksum(rcv.written))
           /\ rcv.expected_checksum = None => rcv.verified[1] = TRUE
           /\ rcv.expected_checksum # None
                 => (rcv.verified[1]
                        <=> rcv.calculated_checksum[1] = rcv.expected_checksum[1])

\* a receive whose bytes do not have the advertised checksum has finished
C5_Witness ==
    /\ rcv.pc = "done"
    /\ rcv.expected_checksum # None
    /\ rcv.written # <<>>
    /\ rcv.verified = Some(FALSE)

-----------------------------------------------------------------------------
\* The permit pool: the one semaphore of a daemon's TransferService, taken by
\* every send_file call and by every receiver task the listener spawns.  The
\* daemons' number of permits is a configuration value, here MaxConcurrent.

MaxConcurrent == 2
NumTasks == 3

TaskIds == 1..NumTasks

NoTask == [kind |-> "none", pc |-> "none", read_request |-> FALSE, exit |-> "none"]

\* the ways out of send_file, before and after the peer's Accept
\* (lines 234-235, 248, 260, 265, 270, 274, 280; 291, 294, 305, 333, 350)
SenderExits(pc) ==
    IF pc = "holding"
    THEN {"open_error", "connect_error", "write_error", "response_timeout",
          "parse_error", "id_mismatch", "reject", "unexpected"}
    ELSE {"read_error", "write_error", "ok"}

\* the ways out of handle_receiver, before and after its Request
\* (line 110, 216; lines 121-128, 139, 148, 183, 190, 219)
ReceiverExits(pc) ==
    IF pc = "holding"
    THEN {"request_timeout", "parse_error", "not_request"}
    ELSE {"io_error", "chunk_timeout", "parse_error", "cancel", "ok"}

ExitPaths(task) ==
    IF task.kind = "sender" THEN SenderExits(task.pc) ELSE ReceiverExits(task.pc)

Holders == {t \in TaskIds : tasks[t].pc \in {"holding", "streaming"}}

\* line 228: a send_file call reaches semaphore.acquire
StartSend(t) ==
    /\ tasks[t].pc = "none"
    /\ tasks' = [tasks EXCEPT ![t] = [NoTask EXCEPT !.kind = "sender", !.pc = "waiting"]]
    /\ waitq' = Append(waitq, t)
    /\ UNCHANGED <<daemonVars, xferVars, runtimeVars, permits>>

\* lines 76-84 and 107: the listener accepts a connection and spawns its
\* receiver, which reaches semaphore.acquire
AcceptReceiver(t) ==
    /\ tasks[t].pc = "none"
    /\ tasks' = [tasks EXCEPT ![t] = [NoTask EXCEPT !.kind = "receiver", !.pc = "waiting"]]
    /\ waitq' = Append(waitq, t)
    /\ UNCHANGED <<daemonVars, xferVars, runtimeVars, permits>>

NextWaiter_Newest(q) == q[Len(q)]

\* tokio's Semaphore hands its permits out in the order they were asked for
NextWaiter(q) == Head(q)

\* lines 107 and 228: acquire returns
Acquire ==
    /\ waitq # <<>>
    /\ permits > 0
    /\ LET t == NextWaiter(waitq) IN
       /\ tasks' = [tasks EXCEPT ![t].pc = "holding"]
       /\ waitq' = SelectSeq(waitq, LAMBDA u : u # t)
    /\ permits' = permits - 1
    /\ UNCHANGED <<daemonVars, xferVars, runtimeVars>>

\* lines 110-133: the receiver reads its Request and accepts it
RecvRequest(t) ==
    /\ tasks[t].kind = "receiver"
    /\ tasks[t].pc = "holding"
    /\ tasks' = [tasks EXCEPT ![t].pc = "streaming", ![t].read_request = TRUE]
    /\ UNCHANGED <<daemonVars, xferVars, runtimeVars, permits, waitq>>

\* lines 231-291: the sender is accepted by its peer
SendAccepted(t) ==
    /\ tasks[t].kind = "sender"
    /\ tasks[t].pc = "holding"
    /\ tasks' = [tasks EXCEPT ![t].pc = "streaming"]
    /\ UNCHANGED <<daemonVars, xferVars, runtimeVars, permits, waitq>>

PermitDropped_OnlyOnOk(exit) == exit = "ok"

\* _permit lives until its function returns, whichever way
PermitDropped(exit) == TRUE

\* a return of send_file or handle_receiver
Exit(t, exit) ==
    /\ t \in Holders
    /\ exit \in ExitPaths(tasks[t])
    /\ tasks' = [tasks EXCEPT ![t].pc = "exited", ![t].exit = exit]
    /\ permits' = IF PermitDropped(exit) THEN permits + 1 ELSE permits
    /\ UNCHANGED <<daemonVars, xferVars, runtimeVars, waitq>>

\* TransferService::new
InitPermits ==
    /\ peers = <<>>
    /\ now = 0
    /\ connections = {}
    /\ outq = [c \in Clients |-> <<>>]
    /\ lastOp = [op |-> "init"]
    /\ RuntimeIdle
    /\ RegistryIdle
    /\ SessionsIdle
    /\ scenario = "none"
    /\ snd = [pc |-> "idle"]
    /\ rcv = [pc |-> "idle"]
    /\ s2r = <<>>
    /\ r2s = <<>>
    /\ reads = 0
    /\ permits = MaxConcurrent
    /\ waitq = <<>>
    /\ tasks = [t \in TaskIds |-> NoTask]

NextPermits ==
    \/ \E t \in TaskIds : StartSend(t)
    \/ \E t \in TaskIds : AcceptReceiver(t)
    \/ Acquire
    \/ \E t \in TaskIds : RecvRequest(t)
    \/ \E t \in TaskIds : SendAccepted(t)
    \/ \E t \in TaskIds, exit \in {"open_error", "connect_error", "write_error",
                                   "response_timeout", "parse_error", "id_mismatch",
                                   "reject", "unexpected", "read_error", "ok",
                                   "request_timeout", "not_request", "io_error",
                                   "chunk_timeout", "cancel"} : Exit(t, exit)

\* a task suspended in acquire is woken and run once a permit is there
SpecPermits == InitPermits /\ [][NextPermits]_vars /\ WF_vars(Acquire)

\* C6: the tasks holding a permit are never more than MaxConcurrent, senders
\* and receivers counted together; the permits left are the ones not held, so
\* every return gave its permit back and an idle daemon has them all.
C6_PermitsBoundTransfers ==
    /\ Cardinality(Holders) <= MaxConcurrent
    /\ permits = MaxConcurrent - Cardinality(Holders)
    /\ Holders = {} => permits = MaxConcurrent

\* a sender and a receiver and a third task have held permits and have all
\* returned, by a Reject, a Cancel and a timeout, and the pool is full again
C6_Witness ==
    /\ \A t \in TaskIds : tasks[t].pc = "exited"
    /\ \E t \in TaskIds : tasks[t].kind = "sender" /\ tasks[t].exit = "reject"
    /\ \E t \in TaskIds : tasks[t].kind = "receiver" /\ tasks[t].exit = "cancel"
    /\ \E t \in TaskIds : tasks[t].exit = "chunk_timeout"
    /\ permits = MaxConcurrent

\* C7: a receiver that finds every permit taken is spawned all the same; while
\* it waits it has read no Request and has not returned; and once a permit is
\* there for the oldest waiting task, that task gets it.
C7_ReceiverWaitsForPermit ==
    /\ [](\A t \in TaskIds :
            tasks[t].pc = "waiting"
                => /\ ~tasks[t].read_request
                   /\ tasks[t].exit = "none"
                   /\ \E i \in 1..Len(waitq) : waitq[i] = t)
    /\ \A t \in TaskIds :
          (tasks[t].pc = "waiting" /\ waitq[1] = t /\ permits > 0)
              ~> (tasks[t].pc = "holding")

\* every permit is held and a receiver waits
C7_Witness ==
    /\ permits = 0
    /\ Cardinality(Holders) = MaxConcurrent
    /\ \E t \in TaskIds :
          /\ tasks[t].kind = "receiver"
          /\ tasks[t].pc = "waiting"
          /\ ~tasks[t].read_request

-----------------------------------------------------------------------------
\* The sweep on its own: cleanup_stale_peers applied to any Peer Table at any
\* time, with any timeout.  The wall clock may have been set back since a peer
\* was seen, so a last_seen may lie after now.

MaxSeen == 4
MaxSweepTimeout == 3

SeenTimes == 0..MaxSeen

SweepTables ==
    UNION {{[k \in ids |-> Peer(k, "10.0.0.1:7879", "alpha", seen[k])] :
               seen \in [ids -> SeenTimes]} : ids \in SUBSET ForeignIds}

\* cleanup_stale_peers(timeout_secs)
Sweep(timeout_secs) ==
    /\ peers' = cleanup_stale_peers(peers, timeout_secs)
    /\ lastOp' = [op |-> "sweep", timeout_secs |-> timeout_secs, before |-> peers]
    /\ UNCHANGED <<now, connections, outq, regVars, sessVars, taskVars, xferVars,
                   permVars, runtimeVars>>

InitSweep ==
    /\ peers \in SweepTables
    /\ now \in SeenTimes
    /\ connections = {}
    /\ outq = [c \in Clients |-> <<>>]
    /\ lastOp = [op |-> "init"]
    /\ RuntimeIdle
    /\ RegistryIdle
    /\ SessionsIdle
    /\ TransferIdle

NextSweep == \E timeout_secs \in 1..MaxSweepTimeout : Sweep(timeout_secs)

SpecSweep == InitSweep /\ [][NextSweep]_vars

\* C11: right after a sweep with timeout T at time now, every peer left in
\* the table was seen at or before now and less than T seconds ago.
C11_SweepLeavesOnlyFreshPeers ==
    lastOp.op = "sweep"
        => \A k \in DOMAIN peers :
              /\ peers[k].last_seen <= now
              /\ ~(now - peers[k].last_seen >= lastOp.timeout_secs)

\* a sweep took out a peer whose last_seen lay in the future and kept one
\* seen a second less than T ago
C11_Witness ==
    /\ lastOp.op = "sweep"
    /\ DOMAIN lastOp.before = ForeignIds
    /\ lastOp.before[1].last_seen > now
    /\ now - lastOp.before[2].last_seen = lastOp.timeout_secs - 1
    /\ DOMAIN peers = {2}

-----------------------------------------------------------------------------
\* Discovery in real time: the clock advances a second at a time and the
\* interval of cleanup_loop ticks at its deadlines, the first one at once.
\* One foreign peer advertises, whenever it likes, from one endpoint.

MaxClock == 51

TimedAdvertisements ==
    {a \in Advertisements : a.peer_id = 1 /\ a.hostname = "alpha"}

\* interval.tick() returns at the deadline and the loop body runs
cleanup_tick ==
    /\ now = nextSweep
    /\ nextSweep' = nextSweep + CleanupIntervalSecs
    /\ sweep_and_notify

\* a second passes; a tick that is due comes first
Second ==
    /\ now < nextSweep
    /\ now < MaxClock
    /\ now' = now + 1
    /\ lastOp' = [op |-> "tick"]
    /\ UNCHANGED <<peers, connections, outq, regVars, sessVars, taskVars, xferVars,
                   permVars, runtimeVars>>

NextTimedDiscovery ==
    \/ \E d \in TimedAdvertisements : listen_loop(d)
    \/ cleanup_tick
    \/ Second
    \/ \E c \in Clients : SessionEnds(c)

SpecTimedDiscovery == InitDiscovery /\ [][NextTimedDiscovery]_vars

\* C12: a peer is never in the Peer Table 40 seconds (the timeout plus the
\* interval) after its last advertisement; and the step that takes a peer
\* out of the table is a turn of the cleanup loop that enqueues a PeerRemoved
\* with its id on the queue of every connected session.
C12_SilentPeerRemovedInTime ==
    /\ [](\A k \in DOMAIN peers :
            now - peers[k].last_seen < StaleTimeoutSecs + CleanupIntervalSecs)
    /\ [][\A k \in DOMAIN peers \ DOMAIN peers' :
            /\ lastOp'.op = "cleanup"
            /\ now - peers[k].last_seen >= StaleTimeoutSecs
            /\ \A c \in connections :
                  \E i \in (Len(outq[c]) + 1)..Len(outq'[c]) :
                      outq'[c][i] = PeerRemovedMsg(k)]_vars

\* the peer was removed by the sweep at second 50 and the connected session
\* was told; it can have been seen last at second 11
C12_Witness ==
    /\ now = 5 * CleanupIntervalSecs
    /\ lastOp.op = "cleanup"
    /\ DOMAIN peers = {}
    /\ \E c \in connections :
          /\ Len(outq[c]) = 2
          /\ outq[c][2] = PeerRemovedMsg(1)

-----------------------------------------------------------------------------
\* C13: the completed sequence is never longer than max_history, whatever
\* the order in which transfers complete, fail and are cancelled.
C13_CompletedWithinCap ==
    Len(history.completed_transfers) <= MaxHistory

\* the sequence is full and a record that had been in it was evicted
C13_Witness ==
    /\ Len(history.completed_transfers) = MaxHistory
    /\ \E id \in 1..(nextUuid - 1) : id \notin RegistryIds
    /\ \A t \in DOMAIN sendTasks : sendTasks[t].pc = "done"

-----------------------------------------------------------------------------
\* The inbound side of a session: the text frames of the client wait on the
\* socket in the order they arrived, and recv_task takes them one at a time,
\* each only after it has sent the response to the one before.

PingCmd == [type |-> "Ping"]

GetPeersCmd == [type |-> "GetPeers"]

GetLocalInfoCmd == [type |-> "GetLocalInfo"]

\* a text frame that is no ClientMessage
InvalidFrame == [text |-> "{}"]

QueryFrames == {PingCmd, GetPeersCmd, GetLocalInfoCmd, InvalidFrame}

\* serde_json::from_str::<ClientMessage>(&text)
parse_client_message(text) == IF "type" \in DOMAIN text THEN Some(text) ELSE None

PongMsg == [type |-> "Pong"]

\* PeerInfo::from(peer)
PeerInfoOf(peer) == [id |-> peer.id, address |-> peer.address, hostname |-> peer.hostname]

PeersListMsg(table) ==
    [type |-> "PeersList", peers |-> {PeerInfoOf(p) : p \in list_peers(table)}]

LocalInfoMsg == [type |-> "LocalInfo", peer_id |-> local_id, hostname |-> "localhost"]

\* handle_client_message for the commands that only read
handle_query(cmd) ==
    CASE cmd.type = "Ping" -> Some(PongMsg)
      [] cmd.type = "GetPeers" -> Some(PeersListMsg(peers))
      [] cmd.type = "GetLocalInfo" -> Some(LocalInfoMsg)

\* the client sends a text frame
ClientSends(c, frame) ==
    /\ sess[c] \in {"open", "writer_gone"}
    /\ ncmd < MaxCmds
    /\ ncmd' = ncmd + 1
    /\ inbox' = [inbox EXCEPT ![c].arrived = Append(@, frame),
                              ![c].waiting = Append(@, frame)]
    /\ UNCHANGED <<discVars, connections, outq, lastOp, regVars, sess, pending, taskVars,
                   xferVars, permVars, nextSweep, locks, ltask>>

next_frame_Newest(waiting) == Len(waiting)

\* receiver.next(): the position, among the waiting frames, of the one it yields
next_frame(waiting) == 1

\* recv_task: receiver.next().await and handle_client_message
TakeFrame(c) ==
    /\ sess[c] \in {"open", "writer_gone"}
    /\ pending[c] = None
    /\ inbox[c].waiting # <<>>
    /\ LET i == next_frame(inbox[c].waiting)
           text == inbox[c].waiting[i]
           client_msg == parse_client_message(text)
       IN /\ inbox' = [inbox EXCEPT ![c].waiting =
                          SubSeq(@, 1, i - 1) \o SubSeq(@, i + 1, Len(@))]
          /\ pending' = IF client_msg = None
                        THEN pending
                        ELSE Handled(c, client_msg[1], handle_query(client_msg[1]))
    /\ UNCHANGED <<discVars, connections, outq, lastOp, regVars, sess, ncmd, taskVars,
                   xferVars, permVars, nextSweep, locks, ltask>>

InitReplies ==
    /\ peers = <<>>
    /\ now = 0
    /\ connections = {}
    /\ outq = [c \in Clients |-> <<>>]
    /\ lastOp = [op |-> "init"]
    /\ RuntimeIdle
    /\ RegistryIdle
    /\ SessionsIdle
    /\ TransferIdle

NextReplies ==
    \/ \E c \in Clients, frame \in QueryFrames : ClientSends(c, frame)
    \/ \E c \in Clients : TakeFrame(c)
    \/ \E d \in TimedAdvertisements : listen_loop(d)
    \/ SessionLifecycle

SpecReplies == InitReplies /\ [][NextReplies]_vars

\* the type of the response to a command
ResponseType(cmd) ==
    CASE cmd.type = "Ping" -> "Pong"
      [] cmd.type = "GetPeers" -> "PeersList"
      [] cmd.type = "GetLocalInfo" -> "LocalInfo"

IsResponse(message) == message.type \in {"Pong", "PeersList", "LocalInfo"}

IsCommand(frame) == "type" \in DOMAIN frame

\* C14: on every session, the responses on the outbound queue are, in order,
\* the responses to the first commands that arrived: a response to a later
\* command never comes before the response to an earlier one.
C14_RepliesInArrivalOrder ==
    \A c \in Clients :
        LET replies == SelectSeq(outq[c], IsResponse)
            commands == SelectSeq(inbox[c].arrived, IsCommand)
        IN /\ Len(replies) <= Len(commands)
           /\ \A i \in 1..Len(replies) : replies[i].type = ResponseType(commands[i])

\* three different commands were answered in their order, a PeerDiscovered
\* having come in between
C14_Witness ==
    \E c \in Clients :
        /\ inbox[c].arrived = <<GetPeersCmd, PingCmd, GetLocalInfoCmd>>
        /\ Len(SelectSeq(outq[c], IsResponse)) = 3
        /\ Len(outq[c]) = 4
        /\ outq[c][1].type = "PeersList"
        /\ outq[c][4].type = "LocalInfo"

-----------------------------------------------------------------------------
\* the session of client c ended or lost its writer in this step
SessionCloses(c) == sess[c] # sess'[c] /\ sess'[c] \in {"writer_gone", "closed"}

\* the send task t leaves send_file in this step
SendTaskReturns(t) == sendTasks[t].pc = "send_file" /\ sendTasks'[t].pc # "send_file"

\* C15: a send task outlives the session that issued its SendFile. The end of
\* the session leaves the task as it is and able to go on; when send_file
\* returns after the session left the connections table, the record leaves
\* the active map and, if it was still active, is the newest completed record
\* with status completed or failed; and nothing is enqueued for a session
\* that is not in the connections table.
C15_TaskOutlivesSession ==
    /\ [](\A t \in DOMAIN sendTasks :
              sendTasks[t].pc = "send_file" => ENABLED (\E ok \in BOOLEAN : SendTaskFinish(t, ok)))
    /\ [][\A t \in DOMAIN sendTasks :
              LET c == sendTasks[t].client
              IN /\ t \in DOMAIN sendTasks'
                 /\ SessionCloses(c) => sendTasks'[t] = sendTasks[t] /\ history' = history
                 /\ (c \notin connections /\ SendTaskReturns(t)) =>
                        /\ t \notin DOMAIN history'.transfers
                        /\ t \in DOMAIN history.transfers =>
                               LET done == history'.completed_transfers
                               IN /\ done # <<>>
                                  /\ done[Len(done)].transfer_id = t
                                  /\ done[Len(done)].status \in {"completed", "failed"}
                 /\ c \notin connections => outq'[c] = outq[c]]_vars

\* a send task failed and ended after its session had closed: its record is
\* failed and the session's queue holds no FileTransferError for it
C15_Witness ==
    \E t \in DOMAIN sendTasks :
        LET c == sendTasks[t].client
        IN /\ sendTasks[t].pc = "done"
           /\ sendTasks[t].result = Some(FALSE)
           /\ sess[c] = "closed"
           /\ \E i \in 1..Len(history.completed_transfers) :
                  /\ history.completed_transfers[i].transfer_id = t
                  /\ history.completed_transfers[i].status = "failed"
           /\ ~ \E i \in 1..Len(outq[c]) :
                  /\ outq[c][i].type = "FileTransferError"
                  /\ outq[c][i].transfer_id = t

-----------------------------------------------------------------------------
\* the messages send_file has written that are Chunks
IsChunk(message) == message.type = "Chunk"

SentChunks == SelectSeq(snd.sent, IsChunk)

RECURSIVE Concat(_)
Concat(chunks) == IF chunks = <<>> THEN <<>> ELSE Head(chunks).data \o Concat(Tail(chunks))

\* the number of chunks of a file of the given length
ChunkCount(len) == (len + ChunkSize - 1) \div ChunkSize

C17_EmptyFileVerified ==
    (scenario = "honest" /\ snd.file = <<>>) =>
        /\ snd.pc = "ok" =>
              snd.sent = <<RequestMsg(snd.transfer_id, 0, snd.file_checksum),
                           CompleteMsg(snd.transfer_id, snd.file_checksum)>>
        /\ rcv.pc \in {"loop", "finalize", "done"} =>
              /\ rcv.created
              /\ rcv.file_size = 0
              /\ rcv.chunk_index = 0
              /\ rcv.written = <<>>
        /\ rcv.pc = "done" => rcv.verified = Some(TRUE)

\* an empty file was sent after the Accept, and received
C17_Witness ==
    /\ scenario = "honest"
    /\ snd.file = <<>>
    /\ snd.pc = "ok"
    /\ Len(snd.sent) = 2
    /\ rcv.pc = "done"
    /\ rcv.created
    /\ rcv.verified = Some(TRUE)

-----------------------------------------------------------------------------
\* C18: a datagram that is no advertisement changes nothing: the Peer Table,
\* every session's queue and all other state of the daemon stay as they
\* were, so what listen_loop does with the next datagram is what it would
\* have done without it; and listen_loop is always ready for the next
\* datagram, whatever came before.
C18_MalformedDatagramDropped ==
    /\ [](\A d \in Datagrams : ENABLED listen_loop(d))
    /\ [][(lastOp'.op = "listen" /\ lastOp'.dgram \in Malformed)
            => UNCHANGED <<peers, now, connections, outq, regVars, sessVars, taskVars,
                           xferVars, permVars, runtimeVars>>]_vars

\* a datagram with all three fields and an unparsable address was dropped
\* while a peer is known and a session is connected
C18_Witness ==
    /\ lastOp.op = "listen"
    /\ lastOp.dgram \in Malformed
    /\ DOMAIN lastOp.dgram = {"peer_id", "address", "hostname"}
    /\ DOMAIN peers = {2}
    /\ connections # {}

-----------------------------------------------------------------------------
\* The three tokio RwLocks the tasks of a daemon share: the Peer Table, the
\* connections table and the client_to_peer table.  A tokio RwLock is fair:
\* requests wait in a queue in the order they were made, a read is granted at
\* once only when no writer holds the lock and nothing waits, a write only
\* when nothing holds the lock and nothing waits.

LockNames == {"peers", "connections", "client_to_peer"}

\* the tasks: a session handling SendChat, another session being added or
\* removed, and the two loops of the Discovery Service
LockTasks == {"chat", "conn", "listen", "cleanup"}

\* the session that is added or removed while SendChat runs
OtherSession == NumClients + 1

\* the advertisement listen_loop has received
HeardAdvertisement == [peer_id |-> 2, address |-> "10.0.0.2:7879", hostname |-> "beta"]

\* RwLock::new
RwLock_new == [readers |-> [t \in LockTasks |-> 0], writer |-> None, queue |-> <<>>]

NoReaders(lock) == \A t \in LockTasks : lock.readers[t] = 0

\* a request made now is granted without waiting
CanGrant(lock, mode) ==
    /\ lock.writer = None
    /\ lock.queue = <<>>
    /\ mode = "write" => NoReaders(lock)

\* the lock with the task as one more holder
Granted(lock, t, mode) ==
    IF mode = "read"
    THEN [lock EXCEPT !.readers[t] = @ + 1]
    ELSE [lock EXCEPT !.writer = Some(t)]

\* the request at the head of the queue can be granted
HeadGrantable(lock) ==
    /\ lock.queue # <<>>
    /\ lock.writer = None
    /\ Head(lock.queue).mode = "write" => NoReaders(lock)

RECURSIVE Drain(_)
\* the permits that were released go to the waiting requests, in their order
Drain(lock) ==
    IF HeadGrantable(lock)
    THEN Drain(Granted([lock EXCEPT !.queue = Tail(@)],
                       Head(lock.queue).task, Head(lock.queue).mode))
    ELSE lock

\* the guards of the task are dropped
Released(lock, t) ==
    [lock EXCEPT !.readers[t] = 0,
                 !.writer = IF @ = Some(t) THEN None ELSE @]

Waits(lock, t) == \E i \in 1..Len(lock.queue) : lock.queue[i].task = t

Req(lock, mode) == [lock |-> lock, mode |-> mode]

\* ClientMessage::SendChat with a peer_id: the locks it takes, in its order;
\* every guard lives to the end of the arm
SendChat_targeted ==
    <<Req("peers", "read"), Req("client_to_peer", "read"),
      Req("connections", "read"), Req("client_to_peer", "read")>>

\* ClientMessage::SendChat without a peer_id: the connections read lock is
\* taken inside broadcast_to_all
SendChat_untargeted ==
    <<Req("peers", "read"), Req("client_to_peer", "read"), Req("connections", "read")>>

\* add_connection and remove_connection
connection_update == <<Req("connections", "write"), Req("client_to_peer", "write")>>

\* the locks a task takes from its start to its end
Acquisitions(t) ==
    CASE t = "chat" ->
            IF ltask[t].op = "SendChat_targeted" THEN SendChat_targeted
            ELSE SendChat_untargeted
      [] t = "conn" -> connection_update
      [] t = "listen" ->
            <<Req("peers", "write")>> \o
                (IF get_peer(peers, HeardAdvertisement.peer_id) = None
                 THEN <<Req("connections", "read")>> ELSE <<>>)
      [] t = "cleanup" ->
            <<Req("peers", "write")>> \o
                (IF DOMAIN peers # DOMAIN cleanup_stale_peers(peers, StaleTimeoutSecs)
                 THEN <<Req("connections", "read")>> ELSE <<>>)

\* the client_to_peer table: every session is filed under the local id
client_to_peer == [c \in connections |-> local_id]

ChatMessageMsg(from_peer_id, to_peer_id, message) ==
    [type |-> "ChatMessage", from_peer_id |-> from_peer_id, from_hostname |-> "localhost",
     to_peer_id |-> to_peer_id, message |-> message, timestamp |-> now]

\* the task asks for its next lock: it gets it, or joins the queue
LockRequest(t) ==
    /\ t \in DOMAIN ltask
    /\ ~ltask[t].waiting
    /\ ~ltask[t].done
    /\ ltask[t].pc < Len(Acquisitions(t))
    /\ LET req == Acquisitions(t)[ltask[t].pc + 1] IN
       IF CanGrant(locks[req.lock], req.mode)
       THEN /\ locks' = [locks EXCEPT ![req.lock] = Granted(@, t, req.mode)]
            /\ ltask' = [ltask EXCEPT ![t].pc = @ + 1]
       ELSE /\ locks' = [locks EXCEPT ![req.lock].queue =
                            Append(@, [task |-> t, mode |-> req.mode])]
            /\ ltask' = [ltask EXCEPT ![t].waiting = TRUE]
    /\ lastOp' = [op |-> "lock", task |-> t]
    /\ UNCHANGED <<discVars, connections, outq, regVars, sessVars, taskVars, xferVars,
                   permVars, nextSweep, inbox>>

\* what the task does to the tables and the queues under its locks
TaskEffect(t) ==
    CASE t = "chat" ->
            LET c == ltask[t].client
                message == ChatMessageMsg(client_to_peer[c], ltask[t].peer_id, "hello")
            IN /\ outq' = IF ltask[t].peer_id # None
                          THEN [cid \in Clients |->
                                   IF /\ cid \in DOMAIN client_to_peer
                                      /\ \/ client_to_peer[cid] = ltask[t].peer_id[1]
                                         \/ cid = c
                                   THEN Append(outq[cid], message)
                                   ELSE outq[cid]]
                          ELSE broadcast_to_all(outq, message)
               /\ UNCHANGED <<peers, connections>>
      [] t = "conn" ->
            /\ connections' = IF ltask[t].op = "add_connection"
                              THEN add_connection(connections, OtherSession)
                              ELSE remove_connection(connections, OtherSession)
            /\ UNCHANGED <<peers, outq>>
      [] t = "listen" ->
            LET d == HeardAdvertisement
                was_new == get_peer(peers, d.peer_id) = None
            IN /\ peers' = add_or_update_peer(peers,
                               from_discovery(d.peer_id, d.address, d.hostname))
               /\ outq' = IF was_new THEN broadcast_to_all(outq, PeerDiscoveredMsg(d))
                          ELSE outq
               /\ UNCHANGED connections
      [] t = "cleanup" ->
            LET after == cleanup_stale_peers(peers, StaleTimeoutSecs)
            IN /\ peers' = after
               /\ outq' = NotifyRemoved(outq, DOMAIN peers \ DOMAIN after)
               /\ UNCHANGED connections

\* the task has all its locks: it does its work and drops its guards, and
\* the requests that waited for them are granted
LockedSection(t) ==
    /\ t \in DOMAIN ltask
    /\ ~ltask[t].waiting
    /\ ~ltask[t].done
    /\ ltask[t].pc = Len(Acquisitions(t))
    /\ TaskEffect(t)
    /\ locks' = [l \in LockNames |-> Drain(Released(locks[l], t))]
    /\ ltask' = [u \in DOMAIN ltask |->
                    IF u = t THEN [ltask[u] EXCEPT !.done = TRUE]
                    ELSE IF \E l \in LockNames :
                                Waits(locks[l], u) /\ ~Waits(Drain(Released(locks[l], t)), u)
                    THEN [ltask[u] EXCEPT !.waiting = FALSE, !.pc = @ + 1]
                    ELSE ltask[u]]
    /\ lastOp' = [op |-> "locked_section", task |-> t]
    /\ UNCHANGED <<now, regVars, sessVars, taskVars, xferVars, permVars, nextSweep, inbox>>

LockTask(op) == [op |-> op, pc |-> 0, waiting |-> FALSE, done |-> FALSE]

InitLocks ==
    /\ \E conn_op \in {"add_connection", "remove_connection"} :
          /\ \E chat_op \in {"SendChat_targeted", "SendChat_untargeted"} :
                ltask = [t \in LockTasks |->
                           CASE t = "chat" ->
                                   LockTask(chat_op) @@
                                       [client |-> 1,
                                        peer_id |-> IF chat_op = "SendChat_targeted"
                                                    THEN Some(1) ELSE None]
                             [] t = "conn" -> LockTask(conn_op)
                             [] t = "listen" -> LockTask("listen_loop")
                             [] t = "cleanup" -> LockTask("cleanup_loop")]
          /\ connections = IF conn_op = "add_connection" THEN Clients
                           ELSE Clients \cup {OtherSession}
    /\ locks = [l \in LockNames |-> RwLock_new]
    /\ peers = (1 :> Peer(1, "10.0.0.1:7879", "alpha", 0))
    /\ now = StaleTimeoutSecs
    /\ outq = [c \in Clients |-> <<>>]
    /\ lastOp = [op |-> "init"]
    /\ nextSweep = 0
    /\ inbox = [c \in Clients |-> [arrived |-> <<>>, waiting |-> <<>>]]
    /\ RegistryIdle
    /\ pending = [c \in Clients |-> None]
    /\ ncmd = 0
    /\ sendTasks = <<>>
    /\ bcastTasks = <<>>
    /\ sess = [c \in Clients |-> "open"]
    /\ TransferIdle

NextLocks ==
    \/ \E t \in LockTasks : LockRequest(t)
    \/ \E t \in LockTasks : LockedSection(t)

SpecLocks == InitLocks /\ [][NextLocks]_vars

\* the task can take a step
CanStep(t) == ~ltask[t].done /\ ~ltask[t].waiting

\* C19: the tasks never come to a stop while one of them is unfinished:
\* as long as a SendChat, an add_connection or remove_connection, the listen
\* loop or the cleanup loop has not finished, some task is able to go on.
C19_LocksCannotDeadlock ==
    (\E t \in DOMAIN ltask : ~ltask[t].done) => \E t \in DOMAIN ltask : CanStep(t)

-----------------------------------------------------------------------------
\* C20: on the queue of the session that issued a SendFile, a
\* FileTransferError for a transfer_id comes only after the
\* FileTransferRequest echo for that transfer_id.
C20_EchoBeforeError ==
    \A t \in DOMAIN sendTasks :
        LET c == sendTasks[t].client
        IN \A j \in 1..Len(outq[c]) :
              (outq[c][j].type = "FileTransferError" /\ outq[c][j].transfer_id = t)
                  => \E i \in 1..(j - 1) :
                        /\ outq[c][i].type = "FileTransferRequest"
                        /\ outq[c][i].transfer_id = t

-----------------------------------------------------------------------------
\* Two daemons sending to each other.  Each has its own pool of
\* MaxConcurrent permits; a transfer x is a send_file call on its source
\* daemon and, once that call has connected, a handle_receiver task on the
\* other daemon.  Here permits and waitq are per daemon and tasks is per
\* transfer.  Time is not counted: a timeout is a step that may be taken
\* whenever what it waits for has not come.

MaxTransfers == 4

Daemons == {1, 2}

Transfers == 1..MaxTransfers

\* the daemon whose client asks for transfer x, and the one it sends to
SourceOf(x) == 1 + (x % 2)

TargetOf(x) == 3 - SourceOf(x)

NoTransfer == [snd |-> "none", rcv |-> "none", snd_exit |-> "none", rcv_exit |-> "none"]

SendersHolding(d) ==
    {x \in Transfers : SourceOf(x) = d /\ tasks[x].snd \in {"holding", "requested", "streaming"}}

ReceiversHolding(d) ==
    {x \in Transfers : TargetOf(x) = d /\ tasks[x].rcv \in {"holding", "streaming"}}

\* line 228: send_file reaches semaphore.acquire on its daemon
CallSendFile(x) ==
    /\ tasks[x].snd = "none"
    /\ tasks' = [tasks EXCEPT ![x].snd = "waiting"]
    /\ waitq' = [waitq EXCEPT ![SourceOf(x)] = Append(@, [transfer |-> x, side |-> "snd"])]
    /\ UNCHANGED <<daemonVars, xferVars, runtimeVars, permits>>

\* lines 107 and 228: acquire returns for the task that has waited longest
AcquirePermit(d) ==
    /\ waitq[d] # <<>>
    /\ permits[d] > 0
    /\ LET w == NextWaiter(waitq[d]) IN
       /\ tasks' = [tasks EXCEPT ![w.transfer][w.side] = "holding"]
       /\ waitq' = [waitq EXCEPT ![d] = SelectSeq(@, LAMBDA u : u # w)]
    /\ permits' = [permits EXCEPT ![d] = @ - 1]
    /\ UNCHANGED <<daemonVars, xferVars, runtimeVars>>

ListenerAccepts_EndsOnReceiverError(d) ==
    \A x \in Transfers :
        (TargetOf(x) = d /\ tasks[x].rcv = "exited") => tasks[x].rcv_exit = "ok"

\* lines 70-84: start_listener's loop is at listener.accept() of daemon d.
\* The loop ends only if accept itself fails, which is not counted here; the
\* Result of handle_receiver is taken inside the spawned task (`if let Err(e)`
\* logs it), so it never reaches the loop
ListenerAccepts(d) == d \in Daemons

\* lines 231-260: the file is opened, the connection made within ten seconds
\* and the Request written; the listener of the other daemon accepts the
\* connection and spawns the receiver, which reaches semaphore.acquire
ConnectAndRequest(x, ok) ==
    /\ tasks[x].snd = "holding"
    /\ ok => ListenerAccepts(TargetOf(x))
    /\ IF ok
       THEN /\ tasks' = [tasks EXCEPT ![x].snd = "requested", ![x].rcv = "waiting"]
            /\ waitq' = [waitq EXCEPT ![TargetOf(x)] =
                            Append(@, [transfer |-> x, side |-> "rcv"])]
            /\ permits' = permits
       ELSE /\ tasks' = [tasks EXCEPT ![x].snd = "exited", ![x].snd_exit = "connect_error"]
            /\ waitq' = waitq
            /\ permits' = [permits EXCEPT ![SourceOf(x)] =
                              IF PermitDropped("connect_error") THEN @ + 1 ELSE @]
    /\ UNCHANGED <<daemonVars, xferVars, runtimeVars>>

ResponseOutcome_WaitsForAnswer(rcv_pc, rcv_exit) ==
    CASE rcv_pc = "streaming" -> "accept"
      [] rcv_pc = "exited" /\ rcv_exit \in {"io_error", "chunk_timeout"} -> "accept"
      [] rcv_pc = "exited" -> "parse_error"
      [] OTHER -> "pending"

\* lines 262-282: what the thirty seconds of waiting for the response end
\* with, given where the receiver is: its Accept, the end of the stream it
\* closed, or the timeout
ResponseOutcome(rcv_pc, rcv_exit) ==
    CASE rcv_pc = "streaming" -> "accept"
      [] rcv_pc = "exited" /\ rcv_exit \in {"io_error", "chunk_timeout"} -> "accept"
      [] rcv_pc = "exited" -> "parse_error"
      [] OTHER -> "response_timeout"

\* lines 262-282
AwaitResponse(x) ==
    /\ tasks[x].snd = "requested"
    /\ LET outcome == ResponseOutcome(tasks[x].rcv, tasks[x].rcv_exit) IN
       /\ outcome # "pending"
       /\ IF outcome = "accept"
          THEN tasks' = [tasks EXCEPT ![x].snd = "streaming"] /\ permits' = permits
          ELSE /\ tasks' = [tasks EXCEPT ![x].snd = "exited", ![x].snd_exit = outcome]
               /\ permits' = [permits EXCEPT ![SourceOf(x)] =
                                 IF PermitDropped(outcome) THEN @ + 1 ELSE @]
    /\ UNCHANGED <<daemonVars, xferVars, runtimeVars, waitq>>

\* lines 110-128: the receiver reads the Request, creates the file and
\* writes its Accept
ReceiveRequest(x, ok) ==
    /\ tasks[x].rcv = "holding"
    /\ IF ok
       THEN tasks' = [tasks EXCEPT ![x].rcv = "streaming"] /\ permits' = permits
       ELSE /\ tasks' = [tasks EXCEPT ![x].rcv = "exited", ![x].rcv_exit = "create_error"]
            /\ permits' = [permits EXCEPT ![TargetOf(x)] =
                              IF PermitDropped("create_error") THEN @ + 1 ELSE @]
    /\ UNCHANGED <<daemonVars, xferVars, runtimeVars, waitq>>

\* lines 284-350: the chunks and the Complete are written, or a write fails
FinishSend(x, exit) ==
    /\ tasks[x].snd = "streaming"
    /\ exit \in SenderExits("streaming")
    /\ tasks' = [tasks EXCEPT ![x].snd = "exited", ![x].snd_exit = exit]
    /\ permits' = [permits EXCEPT ![SourceOf(x)] = IF PermitDropped(exit) THEN @ + 1 ELSE @]
    /\ UNCHANGED <<daemonVars, xferVars, runtimeVars, waitq>>

\* the ways the receiver's loop can end, given where its sender is
StreamExits(snd_pc, snd_exit) ==
    CASE snd_pc = "exited" /\ snd_exit = "ok" -> {"ok"}
      [] snd_pc = "exited" -> {"parse_error"}
      [] snd_pc = "streaming" -> {"io_error", "chunk_timeout"}
      [] OTHER -> {"chunk_timeout"}

\* lines 135-219
FinishReceive(x, exit) ==
    /\ tasks[x].rcv = "streaming"
    /\ exit \in StreamExits(tasks[x].snd, tasks[x].snd_exit)
    /\ tasks' = [tasks EXCEPT ![x].rcv = "exited", ![x].rcv_exit = exit]
    /\ permits' = [permits EXCEPT ![TargetOf(x)] = IF PermitDropped(exit) THEN @ + 1 ELSE @]
    /\ UNCHANGED <<daemonVars, xferVars, runtimeVars, waitq>>

InitMutual ==
    /\ peers = <<>>
    /\ now = 0
    /\ connections = {}
    /\ outq = [c \in Clients |-> <<>>]
    /\ lastOp = [op |-> "init"]
    /\ RuntimeIdle
    /\ RegistryIdle
    /\ SessionsIdle
    /\ scenario = "none"
    /\ snd = [pc |-> "idle"]
    /\ rcv = [pc |-> "idle"]
    /\ s2r = <<>>
    /\ r2s = <<>>
    /\ reads = 0
    /\ permits = [d \in Daemons |-> MaxConcurrent]
    /\ waitq = [d \in Daemons |-> <<>>]
    /\ tasks = [x \in Transfers |-> NoTransfer]

NextMutual ==
    \/ \E x \in Transfers : CallSendFile(x)
    \/ \E d \in Daemons : AcquirePermit(d)
    \/ \E x \in Transfers, ok \in BOOLEAN : ConnectAndRequest(x, ok)
    \/ \E x \in Transfers : AwaitResponse(x)
    \/ \E x \in Transfers, ok \in BOOLEAN : ReceiveRequest(x, ok)
    \/ \E x \in Transfers, exit \in {"read_error", "write_error", "ok"} : FinishSend(x, exit)
    \/ \E x \in Transfers, exit \in {"ok", "parse_error", "io_error", "chunk_timeout"} :
           FinishReceive(x, exit)

\* a step of a task that holds or is handed a permit
MutualProgress ==
    \/ \E d \in Daemons : AcquirePermit(d)
    \/ \E x \in Transfers, ok \in BOOLEAN : ConnectAndRequest(x, ok)
    \/ \E x \in Transfers : AwaitResponse(x)
    \/ \E x \in Transfers, ok \in BOOLEAN : ReceiveRequest(x, ok)
    \/ \E x \in Transfers, exit \in {"read_error", "write_error", "ok"} : FinishSend(x, exit)
    \/ \E x \in Transfers, exit \in {"ok", "parse_error", "io_error", "chunk_timeout"} :
           FinishReceive(x, exit)

\* the runtime runs a task that can run, and a timer that was set goes off:
\* the daemons do not all stand still while one of their tasks can go on
FairMutual == WF_vars(MutualProgress)

SpecMutual == InitMutual /\ [][NextMutual]_vars /\ FairMutual

\* every permit of both daemons is held by a sender that has written its
\* Request, and every receiver of those Requests waits for a permit
MutualExhaustion ==
    \A d \in Daemons :
        /\ permits[d] = 0
        /\ Cardinality({x \in SendersHolding(d) : tasks[x].snd = "requested"}) = MaxConcurrent
        /\ \A x \in SendersHolding(d) : tasks[x].rcv = "waiting"

\* C21: every send_file call returns and its permit is back in the pool:
\* the permits left are always the ones no task holds; again and again all
\* the calls and receivers that were started have returned (a return is for
\* good, so each of them returns); and a sender whose receiver still waits
\* for a permit leaves only by the response timeout.
C21_SendFileReturns ==
    /\ [](\A d \in Daemons :
             permits[d] = MaxConcurrent
                             - Cardinality(SendersHolding(d)) - Cardinality(ReceiversHolding(d)))
    /\ []<>(\A x \in Transfers :
               tasks[x].snd \in {"none", "exited"} /\ tasks[x].rcv \in {"none", "exited"})
    /\ [][\A x \in Transfers :
             (tasks[x].snd = "requested" /\ tasks[x].rcv = "waiting"
                 /\ tasks'[x].snd # "requested")
                 => tasks'[x].snd_exit = "response_timeout"]_vars

\* both daemons have all their permits held by senders to the other, whose
\* receivers wait
C21_Witness == MutualExhaustion

-----------------------------------------------------------------------------
\* the receiver, in its loop, reads a Chunk in this step
ReadsChunk ==
    /\ rcv.pc = "loop"
    /\ rcv'.last_read.n = rcv.last_read.n + 1
    /\ rcv'.last_read.message.type = "Chunk"

\* C22: a Chunk read in the loop is appended, hashed and counted, and the
\* expected index goes up by one, exactly when its transfer_id is the
\* Request's and its chunk_index the expected one; any other Chunk leaves the
\* file, the hasher, the byte count and the expected index as they were,
\* and the loop goes on without an error.
C22_OnlyExpectedChunkApplied ==
    [][ReadsChunk =>
          LET m == rcv'.last_read.message IN
          IF m.transfer_id = rcv.transfer_id /\ m.chunk_index = rcv.chunk_index
          THEN /\ rcv'.written = rcv.written \o m.data
               /\ rcv'.hasher = Sha256_update(rcv.hasher, m.data)
               /\ rcv'.received_size = rcv.received_size + Len(m.data)
               /\ rcv'.chunk_index = rcv.chunk_index + 1
               /\ rcv'.pc = "loop"
          ELSE /\ rcv'.written = rcv.written
               /\ rcv'.hasher = rcv.hasher
               /\ rcv'.received_size = rcv.received_size
               /\ rcv'.chunk_index = rcv.chunk_index
               /\ rcv'.pc = "loop"
               /\ rcv'.error = rcv.error]_vars

\* after one chunk was accepted, a Chunk of the same transfer with an index
\* already passed has been read and left aside
C22_Witness ==
    /\ rcv.pc = "loop"
    /\ rcv.chunk_index = 1
    /\ rcv.written # <<>>
    /\ rcv.last_read.message.type = "Chunk"
    /\ rcv.last_read.message.transfer_id = rcv.transfer_id
    /\ rcv.last_read.message.chunk_index = 0
    /\ rcv.last_read.n = 3

\* C23: a receive that has finished its finalisation has read a Complete
\* carrying the transfer_id of its Request.
C23_CompleteReadBeforeFinalizing ==
    rcv.pc = "done" => rcv.complete_read

\* send_file has read the Accept of its own transfer
AcceptRead == snd.response = Some(Some(AcceptMsg(snd.transfer_id)))

\* C24: send_file writes a Chunk or a Complete, and is in or past its
\* streaming loop, only when the response it read was an Accept with the
\* transfer_id of its Request; after any other response (a Reject, another
\* kind of message, an Accept for another id, a line that does not parse)
\* and after the response timeout it has returned an error and has written
\* nothing but the Request.
C24_StreamsOnlyAfterAccept ==
    snd.pc # "idle" =>
        /\ (snd.pc \in {"stream", "complete", "ok"} \/ Len(snd.sent) > 1) => AcceptRead
        /\ (snd.response # None /\ ~AcceptRead) =>
              /\ snd.pc = "err"
              /\ snd.sent = <<RequestMsg(snd.transfer_id, snd.file_size, snd.file_checksum)>>
        /\ snd.result = "timeout" =>
              /\ snd.pc = "err"
              /\ snd.response = None
              /\ snd.sent = <<RequestMsg(snd.transfer_id, snd.file_size, snd.file_checksum)>>

\* an Accept carrying another transfer_id was read, and send_file returned
\* the mismatch having written its Request only
C24_Witness ==
    /\ snd.pc = "err"
    /\ snd.result = "Transfer ID mismatch"
    /\ snd.response # None
    /\ snd.response[1][1].type = "Accept"
    /\ snd.response[1][1].transfer_id # snd.transfer_id
    /\ Len(snd.sent) = 1

-----------------------------------------------------------------------------
\* C25: the transfer_id under which SendFile registered a send, and which
\* its FileTransferRequest echo carries, is the transfer_id send_file puts
\* in the Request, Chunk and Complete frames of that send.
C25_RegistryIdIsWireId ==
    \A t \in DOMAIN sendTasks :
        sendTasks[t].wire_id # None => sendTasks[t].wire_id = Some(t)

\* the FileTransferErrors for a transfer on the queue of a session
ErrorsFor(c, t) ==
    {i \in 1..Len(outq[c]) :
        outq[c][i].type = "FileTransferError" /\ outq[c][i].transfer_id = t}

\* C26: the record a send task has moved to the completed sequence has status
\* completed and carries a file checksum if the send succeeded, and has
\* status failed if it did not, in which case the session that issued the
\* SendFile, if it is still open, has exactly one FileTransferError for the
\* transfer on its queue once the task has ended.
C26_FinishedSendRecorded ==
    \A i \in 1..Len(history.completed_transfers) :
        LET record == history.completed_transfers[i]
            t == record.transfer_id
        IN /\ record.status = "completed" =>
                 /\ sendTasks[t].result = Some(TRUE)
                 /\ record.file_checksum # None
           /\ (record.status = "failed" /\ sendTasks[t].pc = "done"
                  /\ sess[sendTasks[t].client] = "open") =>
                 /\ sendTasks[t].result = Some(FALSE)
                 /\ Cardinality(ErrorsFor(sendTasks[t].client, t)) = 1

\* the record of a transfer in the completed sequence
CompletedRecord(h, id) ==
    h.completed_transfers[CHOOSE i \in 1..Len(h.completed_transfers) :
                              h.completed_transfers[i].transfer_id = id]

\* a step that calls complete, fail, cancel, pause or resume for the id
RegistryCallOn(id) ==
    \/ \E c \in Clients : CancelTransfer(c, id)
    \/ \E c \in Clients : PauseTransfer(c, id)
    \/ \E c \in Clients : ResumeTransfer(c, id)
    \/ \E ok \in BOOLEAN : SendTaskFinish(id, ok)

\* what a step may do to the record of one id
LifecycleStep(id) ==
    /\ (id \in ActiveIds /\ id \notin ActiveIds') =>
           /\ history'.completed_transfers # <<>>
           /\ history'.completed_transfers[Len(history'.completed_transfers)].transfer_id = id
    /\ id \in CompletedIds =>
           /\ id \notin ActiveIds'
           /\ id \in CompletedIds' =>
                  CompletedRecord(history', id) = CompletedRecord(history, id)
    /\ (id \notin ActiveIds /\ RegistryCallOn(id)) => history' = history

\* C27: a record in the active map is in_progress or paused, one in the
\* completed sequence is completed, failed or cancelled; a record that leaves
\* the active map is appended to the completed sequence; a record in the
\* completed sequence never changes and never returns to the active map, so
\* after a CancelTransfer the return of the send task leaves it cancelled;
\* complete, fail, cancel, pause and resume for an id that is not active leave
\* the registry as it was.
C27_RecordLifecycle ==
    /\ [](/\ \A id \in ActiveIds :
                history.transfers[id].status \in {"in_progress", "paused"}
          /\ \A i \in 1..Len(history.completed_transfers) :
                history.completed_transfers[i].status \in
                    {"completed", "failed", "cancelled"})
    /\ [][\A id \in Uuids : LifecycleStep(id)]_vars

\* a transfer was cancelled and its send task has returned since
C27_Witness ==
    \E t \in CompletedIds :
        /\ CompletedRecord(history, t).status = "cancelled"
        /\ sendTasks[t].result # None

(***************************************************************************)
(* GetTransferHistory beside the send tasks (history.rs get_all_history)    *)
(***************************************************************************)
\* Path::file_name of the paths of FilePaths; the record's filename is the
\* file_name of its file_path (websocket.rs SendFile)
file_name(file_path) ==
    CASE file_path = "/srv/x.bin" -> "x.bin"
      [] file_path = "/srv/dir" -> "dir"
      [] file_path = "/does/not/exist" -> "exist"

\* TransferRecord::to_history_entry
to_history_entry(record) ==
    [transfer_id |-> record.transfer_id, peer_id |-> record.peer_id,
     peer_hostname |-> record.peer_hostname, filename |-> file_name(record.file_path),
     file_size |-> record.file_size, direction |-> record.direction,
     status |-> record.status, timestamp |-> record.timestamp,
     duration_seconds |-> record.duration_seconds,
     speed_bytes_per_sec |-> record.speed_bytes_per_sec]

\* transfers.values(): the records of the map in any order
values(map) ==
    {[i \in 1..Cardinality(DOMAIN map) |-> map[order[i]]] :
        order \in {o \in [1..Cardinality(DOMAIN map) -> DOMAIN map] :
                      \A i, j \in DOMAIN o : i # j => o[i] # o[j]}}

\* the place of an entry in a sequence sorted so far: behind every entry that
\* is not older (sort_by is stable)
InsertByTimestamp(sorted, entry) ==
    LET k == Cardinality({i \in 1..Len(sorted) : sorted[i].timestamp >= entry.timestamp})
    IN SubSeq(sorted, 1, k) \o <<entry>> \o SubSeq(sorted, k + 1, Len(sorted))

\* all.sort_by(|a, b| b.timestamp.cmp(&a.timestamp))
RECURSIVE sort_by_timestamp(_)
sort_by_timestamp(all) ==
    IF all = <<>> THEN <<>>
    ELSE InsertByTimestamp(sort_by_timestamp(SubSeq(all, 1, Len(all) - 1)), all[Len(all)])

GetTransferHistoryCmd == [type |-> "GetTransferHistory"]
TransferHistoryMsg(transfers) == [type |-> "TransferHistory", transfers |-> transfers]

\* recv_task is inside get_all_history, between its two blocks
InGetAllHistory(c) == pending[c] # None /\ "active" \in DOMAIN pending[c][1]

\* ClientMessage::GetTransferHistory, get_all_history up to the end of its
\* first block: the entries of the active map are collected under
\* transfers.read(), and the guard is dropped at the end of the block
get_all_history_active(c) ==
    /\ CanDispatch(c)
    /\ ncmd' = ncmd + 1
    /\ \E records \in values(history.transfers) :
           pending' = [pending EXCEPT ![c] =
               Some([cmd |-> GetTransferHistoryCmd,
                     active |-> [i \in DOMAIN records |-> to_history_entry(records[i])]])]
    /\ UNCHANGED <<xferVars, permVars, runtimeVars, discVars, lastOp, connections, outq, regVars, sess, taskVars>>

\* get_all_history from its second block on: the entries of the completed
\* sequence are collected under completed_transfers.read(), appended to the
\* active ones and the whole is sorted; the arm returns TransferHistory
get_all_history_completed(c) ==
    /\ sess[c] \in {"open", "writer_gone"}
    /\ InGetAllHistory(c)
    /\ LET completed == [i \in DOMAIN history.completed_transfers |->
                            to_history_entry(history.completed_transfers[i])]
           all == pending[c][1].active \o completed
       IN pending' = Handled(c, GetTransferHistoryCmd,
                             Some(TransferHistoryMsg(sort_by_timestamp(all))))
    /\ UNCHANGED <<xferVars, permVars, runtimeVars, discVars, lastOp, connections, outq, regVars, sess, ncmd, taskVars>>

NextHistory ==
    \/ SessionLifecycle
    \/ Tick
    \/ \E c \in Clients, peer_id \in ForeignIds, file_path \in FilePaths :
           SendFile(c, peer_id, file_path)
    \/ \E c \in Clients, transfer_id \in Uuids : CancelTransfer(c, transfer_id)
    \/ \E t \in Uuids, ok \in BOOLEAN : SendTaskFinish(t, ok)
    \/ \E t \in Uuids : SendTaskNotifyError(t)
    \/ \E c \in Clients : get_all_history_active(c)
    \/ \E c \in Clients : get_all_history_completed(c)

SpecHistory == InitSession /\ [][NextHistory]_vars

\* the TransferHistory replies recv_task holds or has put on a queue
HistoryReplies ==
    {pending[c][1].response[1].transfers : c \in
        {k \in Clients : /\ pending[k] # None
                         /\ "response" \in DOMAIN pending[k][1]
                         /\ pending[k][1].response # None
                         /\ pending[k][1].response[1].type = "TransferHistory"}}

\* C28: a TransferHistory reply names every transfer of the registry, no
\* transfer_id twice, newest first, also when a send task completes or fails
\* its transfer, or a CancelTransfer of another task cancels it, while
\* get_all_history runs.
C28_SnapshotEachRecordOnce ==
    \A transfers \in HistoryReplies :
        /\ \A i, j \in DOMAIN transfers :
               i # j => transfers[i].transfer_id # transfers[j].transfer_id
        /\ \A i, j \in DOMAIN transfers :
               i < j => transfers[i].timestamp >= transfers[j].timestamp
        /\ RegistryIds \subseteq {transfers[i].transfer_id : i \in DOMAIN transfers}

(***************************************************************************)
(* Commands that name a peer or a transfer (websocket.rs)                   *)
(***************************************************************************)
\* ServerMessage::TransferStats as the GetTransferStats arm fills it
TransferStatsMsg(transfer_id, record) ==
    [type |-> "TransferStats", transfer_id |-> transfer_id, status |-> record.status,
     progress |-> 0, total |-> record.file_size,
     speed_bytes_per_sec |-> record.speed_bytes_per_sec, eta_seconds |-> None,
     start_time |-> record.start_time]

\* ClientMessage::GetTransferStats
GetTransferStats(c, transfer_id) ==
    /\ CanDispatch(c)
    /\ ncmd' = ncmd + 1
    /\ LET found == get_transfer(history, transfer_id)
       IN pending' = Handled(c, ControlCmd("GetTransferStats", transfer_id),
              IF found # None THEN Some(TransferStatsMsg(transfer_id, found[1]))
              ELSE Some(ErrorMsg("Transfer not found")))
    /\ UNCHANGED <<xferVars, permVars, runtimeVars, discVars, lastOp, connections, outq, regVars, sess, taskVars>>

NextLookup ==
    \/ SessionLifecycle
    \/ \E c \in Clients, peer_id \in ForeignIds, file_path \in FilePaths :
           SendFile(c, peer_id, file_path)
    \/ \E c \in Clients, transfer_id \in Uuids : GetTransferStats(c, transfer_id)
    \/ \E c \in Clients, transfer_id \in Uuids : CancelTransfer(c, transfer_id)
    \/ \E c \in Clients, transfer_id \in Uuids : PauseTransfer(c, transfer_id)
    \/ \E c \in Clients, transfer_id \in Uuids : ResumeTransfer(c, transfer_id)
    \/ \E t \in Uuids, ok \in BOOLEAN : SendTaskFinish(t, ok)
    \/ \E t \in Uuids : SendTaskNotifyError(t)

SpecLookup == InitSession /\ [][NextLookup]_vars

\* the commands that name a transfer
TransferCommands ==
    {"GetTransferStats", "CancelTransfer", "PauseTransfer", "ResumeTransfer"}

\* the command recv_task is holding the response of names a peer that is not
\* in the Peer Table, or a transfer id that no SendFile has drawn so far
NamesUnknown(cmd) ==
    \/ cmd.type = "SendFile" /\ get_peer(peers, cmd.peer_id) = None
    \/ cmd.type \in TransferCommands /\ cmd.transfer_id >= nextUuid

\* C29: the response to a SendFile for a peer id that is not in the Peer
\* Table, and to a GetTransferStats, CancelTransfer, PauseTransfer or
\* ResumeTransfer for a transfer id that was never registered, is an Error.
C29_UnknownIdAnsweredWithError ==
    \A c \in Clients :
        (pending[c] # None /\ NamesUnknown(pending[c][1].cmd)) =>
            /\ pending[c][1].response # None
            /\ pending[c][1].response[1].type = "Error"

\* the step in which recv_task handles a GetTransferStats of session c
HandlesGetTransferStats(c) ==
    /\ pending[c] = None
    /\ pending'[c] # None
    /\ pending'[c][1].cmd.type = "GetTransferStats"

\* C30: GetTransferStats is answered with TransferStats, carrying the status
\* and the size of the record, when the transfer is in the active map (its
\* status is then in_progress or paused), and with Error when the record has
\* moved to the completed sequence or the id has no record.
C30_StatsOfActiveOnly ==
    [][\A c \in Clients :
          HandlesGetTransferStats(c) =>
              LET id == pending'[c][1].cmd.transfer_id
                  response == pending'[c][1].response[1]
              IN /\ id \in ActiveIds =>
                        /\ response = TransferStatsMsg(id, history.transfers[id])
                        /\ response.status \in {"in_progress", "paused"}
                 /\ id \notin ActiveIds => response = ErrorMsg("Transfer not found")
                 /\ id \in CompletedIds => response.type = "Error"]_vars

\* recv_task holds the Error it answered to a GetTransferStats for a transfer
\* whose record is in the completed sequence
C30_Witness ==
    \E c \in Clients :
        /\ pending[c] # None
        /\ pending[c][1].cmd.type = "GetTransferStats"
        /\ pending[c][1].cmd.transfer_id \in CompletedIds
        /\ pending[c][1].response = Some(ErrorMsg("Transfer not found"))

(***************************************************************************)
(* Discovery events and the changes of the Peer Table                      *)
(***************************************************************************)
\* the PeerDiscovered and PeerRemoved events for a peer in a sequence of
\* server messages, in the order they have there
RECURSIVE PeerEvents(_, _)
PeerEvents(q, peer_id) ==
    IF q = <<>> THEN <<>>
    ELSE LET rest == PeerEvents(Tail(q), peer_id)
         IN IF Head(q).type \in {"PeerDiscovered", "PeerRemoved"}
               /\ Head(q).peer_id = peer_id
            THEN <<Head(q).type>> \o rest
            ELSE rest

\* what a step appended to the queue of a session
Appended(c) == SubSeq(outq'[c], Len(outq[c]) + 1, Len(outq'[c]))

\* C31: on the queue of a session that is in the connections table, a step
\* appends one PeerDiscovered for a peer exactly if the step put the peer into
\* a Peer Table that did not hold it, and one PeerRemoved exactly if the step
\* took the peer out of the table, and nothing else about the peer; so the
\* events of one peer alternate, beginning with PeerDiscovered, and the last
\* is PeerDiscovered exactly while the peer is in the table.
C31_EventsFollowTableChanges ==
    /\ [][\A c \in connections \cap connections', id \in {local_id} \cup ForeignIds :
              /\ Len(outq'[c]) >= Len(outq[c])
              /\ SubSeq(outq'[c], 1, Len(outq[c])) = outq[c]
              /\ PeerEvents(Appended(c), id) =
                     IF id \notin DOMAIN peers /\ id \in DOMAIN peers'
                     THEN <<"PeerDiscovered">>
                     ELSE IF id \in DOMAIN peers /\ id \notin DOMAIN peers'
                          THEN <<"PeerRemoved">>
                          ELSE <<>>]_vars
    /\ [](\A c \in connections, id \in {local_id} \cup ForeignIds :
              LET events == PeerEvents(outq[c], id)
              IN /\ \A i \in DOMAIN events :
                        events[i] = IF i % 2 = 1 THEN "PeerDiscovered" ELSE "PeerRemoved"
                 /\ id \in DOMAIN peers <=> Len(events) % 2 = 1)

\* a session has seen a peer come, go and come again, and an advertisement
\* that updated the entry of a peer in the table since
C31_Witness ==
    \E c \in connections, id \in ForeignIds :
        /\ PeerEvents(outq[c], id) = <<"PeerDiscovered", "PeerRemoved", "PeerDiscovered">>
        /\ lastOp.op = "listen"
        /\ lastOp.peer_id = id
        /\ outq[c][Len(outq[c])].peer_id # id

\* C32: the Peer Table has one record per peer_id, filed under its own id;
\* an ingested advertisement of a foreign peer leaves the record of that id
\* with the advertisement's address and hostname and the time of ingestion
\* as last_seen, whether the id was in the table or not, and leaves every
\* other record alone; no other step changes a record (a sweep only removes).
C32_UpsertKeepsLatest ==
    /\ [](/\ \A k \in DOMAIN peers : peers[k].id = k
          /\ Cardinality(list_peers(peers)) = Cardinality(DOMAIN peers))
    /\ [][\A id \in ForeignIds :
              IF lastOp'.op = "listen" /\ ParseOk(lastOp'.dgram)
                 /\ lastOp'.dgram.peer_id = id
              THEN /\ id \in DOMAIN peers'
                   /\ peers'[id] = Peer(id, lastOp'.dgram.address,
                                        lastOp'.dgram.hostname, now)
              ELSE id \in DOMAIN peers' => (id \in DOMAIN peers /\ peers'[id] = peers[id])]_vars

\* an advertisement has just replaced the record of a peer that was in the
\* table under another address since an earlier time
C32_Witness ==
    \E c \in connections, id \in ForeignIds :
        /\ lastOp.op = "listen"
        /\ lastOp.peer_id = id
        /\ id \in DOMAIN peers
        /\ peers[id].address = lastOp.dgram.address
        /\ peers[id].last_seen > 0
        /\ PeerEvents(outq[c], id) = <<"PeerDiscovered">>
        /\ \E i \in DOMAIN outq[c] :
               /\ outq[c][i].type = "PeerDiscovered"
               /\ outq[c][i].peer_id = id
               /\ outq[c][i].address # peers[id].address

\* the step in which send_file or handle_receiver of transfer x returns Err
ReturnsErr(x) ==
    \/ /\ tasks[x].snd # "exited"
       /\ tasks'[x].snd = "exited"
       /\ tasks'[x].snd_exit # "ok"
    \/ /\ tasks[x].rcv # "exited"
       /\ tasks'[x].rcv = "exited"
       /\ tasks'[x].rcv_exit # "ok"

Sessions == Clients \cup {OtherSession}

\* recv_task leaves its loop and calls remove_connection; with its return
\* pong_tx is dropped, select! completes and handle_socket drops tx
RecvTaskReturns(c) ==
    /\ sess[c] = "open"
    /\ pending[c] = None
    /\ sess' = [sess EXCEPT ![c] = "reader_gone"]
    /\ connections' = remove_connection(connections, c)
    /\ UNCHANGED <<xferVars, permVars, runtimeVars, discVars, lastOp, outq, regVars, pending, ncmd, taskVars>>

\* send_task after recv_task has returned: no sender of the channel is left,
\* rx.recv() yields what is queued and then None (or sender.send fails); the
\* loop ends, remove_connection finds nothing to remove, the task returns
SendTaskReturnsLast(c) ==
    /\ sess[c] = "reader_gone"
    /\ sess' = [sess EXCEPT ![c] = "closed"]
    /\ connections' = remove_connection(connections, c)
    /\ UNCHANGED <<xferVars, permVars, runtimeVars, discVars, lastOp, outq, regVars, pending, ncmd, taskVars>>

\* select!: send_task has returned; recv_task.abort() ends recv_task at
\* its next await, inside a handler or at receiver.next()
SelectAborts(c) ==
    /\ sess[c] = "writer_gone"
    /\ AbortRecvTask(c) \/ RecvTaskEnds(c)

InitSessionEnd ==
    /\ peers \in PeerTables
    /\ now = 0
    /\ connections = {}
    /\ outq = [c \in Sessions |-> <<>>]
    /\ lastOp = [op |-> "init"]
    /\ RuntimeIdle
    /\ RegistryIdle
    /\ sess = [c \in Sessions |-> "new"]
    /\ pending = [c \in Sessions |-> None]
    /\ ncmd = 0
    /\ sendTasks = <<>>
    /\ bcastTasks = <<>>
    /\ TransferIdle

NextSessionEnd ==
    \/ \E c \in Sessions : Connect(c)
    \/ \E c \in Sessions : RecvTaskReturns(c)
    \/ \E c \in Sessions : SendTaskReturnsLast(c)
    \/ \E c \in Sessions : SendTaskEnds(c)
    \/ \E c \in Sessions : SelectAborts(c)
    \/ \E c \in Sessions, transfer_id \in Uuids : CancelTransfer(c, transfer_id)
    \/ \E c \in Sessions : Reply(c)

\* the runtime runs a task that was aborted or whose channel has closed
FairSessionEnd ==
    \A c \in Sessions : WF_vars(SelectAborts(c)) /\ WF_vars(SendTaskReturnsLast(c))

SpecSessionEnd == InitSessionEnd /\ [][NextSessionEnd]_vars /\ FairSessionEnd

BcastPeerEventsOf(c, b) ==
    LET IsPeerEvent(m) ==
            /\ m.type \in {"FileTransferError", "BroadcastTransferProgress"}
            /\ m.transfer_id = b
    IN SelectSeq(outq[c], IsPeerEvent)

\* C35: the broadcast task deals with the peers of its list one after the
\* other: it is in send_file for the peer after the last completed one only
\* when the events of all completed peers have been sent; completed is
\* successful + failed at every point; and on the queue of a session that
\* stays connected the progress events count 1, 2, ..., each failed peer has
\* one FileTransferError, placed right before that peer's progress event.
C35_BroadcastOnePeerAtATime ==
    \A b \in DOMAIN bcastTasks :
        LET task == bcastTasks[b]
            ev == BcastPeerEventsOf(task.client, b)
            progress == {i \in DOMAIN ev : ev[i].type = "BroadcastTransferProgress"}
            errors == {i \in DOMAIN ev : ev[i].type = "FileTransferError"}
        IN /\ task.completed = task.successful + task.failed
           /\ task.completed <= task.total_peers
           /\ task.pc = "send_file" => task.completed < task.total_peers
           /\ task.client \in connections =>
                 /\ Cardinality(progress) =
                        IF task.pc \in {"error", "progress"} THEN task.completed - 1
                        ELSE task.completed
                 /\ Cardinality(errors) =
                        IF task.pc = "error" THEN task.failed - 1 ELSE task.failed
                 /\ \A i \in errors :
                        LET k == 1 + Cardinality({j \in progress : j < i})
                        IN /\ ev[i].peer_id = Some(task.peer_list[k].id)
                           /\ i > 1 => ev[i - 1].type = "BroadcastTransferProgress"
                           /\ i < Len(ev) =>
                                  /\ ev[i + 1].type = "BroadcastTransferProgress"
                                  /\ ev[i + 1].completed_peers = k
                 /\ \A i \in progress :
                        ev[i].completed_peers = Cardinality({j \in progress : j <= i})

\* a broadcast to two peers has failed for the first and is in send_file for
\* the second, with the session connected
C35_Witness ==
    \E b \in DOMAIN bcastTasks :
        /\ bcastTasks[b].client \in connections
        /\ bcastTasks[b].total_peers = 2
        /\ bcastTasks[b].pc = "send_file"
        /\ bcastTasks[b].failed = 1
        /\ bcastTasks[b].completed = 1
        /\ Len(BcastPeerEventsOf(bcastTasks[b].client, b)) = 2

(***************************************************************************)
(* What the tasks do while they hold a write lock                           *)
(***************************************************************************)
\* The tasks that take the writer side of a lock, each as the sequence of
\* the operations of its code: taking and dropping a lock, work on memory
\* ("memory"), a send on a session's unbounded channel ("queue_send"), a
\* tracing event ("log"), a wait for the interval timer ("timer"), and I/O
\* on a socket or a file ("socket_io", "file_io").
WriterLocks == {"peers", "connections", "client_to_peer", "transfers", "completed_transfers"}

WriterTasks == {"listen_loop", "cleanup_loop", "handle_socket", "SendFile", "send_task"}

Lock(lock, mode) == [kind |-> "lock", lock |-> lock, mode |-> mode]
Unlock(lock) == [kind |-> "unlock", lock |-> lock]
Op(kind) == [kind |-> kind]

\* broadcast_to_all (websocket.rs 80-87)
broadcast_to_all_ops == <<Lock("connections", "read"), Op("queue_send"), Unlock("connections")>>

\* discovery.rs 120-141, one turn for an advertisement of a new peer
listen_loop_ops ==
    <<Op("socket_io"), Op("memory"), Lock("peers", "write"), Op("memory"), Op("memory"),
      Op("log")>> \o broadcast_to_all_ops \o <<Unlock("peers")>>

\* discovery.rs 156-177, one turn that removes a peer
cleanup_loop_ops ==
    <<Op("timer"), Lock("peers", "write"), Op("memory"), Op("memory"), Op("memory")>>
        \o broadcast_to_all_ops \o <<Unlock("peers")>>

\* add_connection and remove_connection (websocket.rs 64-78)
connection_update_ops ==
    <<Lock("connections", "write"), Op("memory"), Lock("client_to_peer", "write"),
      Op("memory"), Op("log"), Unlock("client_to_peer"), Unlock("connections")>>

\* handle_socket with its send_task (websocket.rs 409-432): the local id is
\* read, the connection is added, a message is written to the socket, the
\* write of the next one fails and the connection is removed
handle_socket_ops ==
    <<Lock("peers", "read"), Op("memory"), Unlock("peers")>> \o connection_update_ops
        \o <<Op("socket_io"), Op("socket_io")>> \o connection_update_ops

\* the SendFile arm up to the spawn (websocket.rs 121-151, history.rs
\* 137-140); the peers guard lives to the end of the arm
SendFile_ops ==
    <<Lock("peers", "read"), Op("memory"), Op("file_io"), Op("file_io"),
      Op("memory"), Lock("transfers", "write"), Op("memory"), Unlock("transfers"),
      Unlock("peers")>>

send_task_ops_SendsUnderLock ==
    <<Lock("transfers", "write"), Op("file_io"), Op("socket_io"), Op("memory"), Op("memory"),
      Lock("completed_transfers", "write"), Op("memory"), Op("memory"),
      Unlock("completed_transfers"), Unlock("transfers")>>

\* the task SendFile spawns (websocket.rs 151-156, history.rs 147-160):
\* send_file, then complete_transfer
send_task_ops ==
    <<Op("file_io"), Op("socket_io"), Lock("transfers", "write"), Op("memory"), Op("memory"),
      Lock("completed_transfers", "write"), Op("memory"), Op("memory"),
      Unlock("completed_transfers"), Unlock("transfers")>>

Program(t) ==
    CASE t = "listen_loop" -> listen_loop_ops
      [] t = "cleanup_loop" -> cleanup_loop_ops
      [] t = "handle_socket" -> handle_socket_ops
      [] t = "SendFile" -> SendFile_ops
      [] t = "send_task" -> send_task_ops

\* the holds of a task on the locks
HeldBy(t) == {h \in UNION {locks[l] : l \in WriterLocks} : h.task = t}

HoldsWrite(t) == \E h \in HeldBy(t) : h.mode = "write"

\* RwLock: a read is granted when no writer holds the lock, a write when
\* nothing holds it
Grantable(l, mode) ==
    IF mode = "read" THEN \A h \in locks[l] : h.mode # "write" ELSE locks[l] = {}

\* the task does its next operation
WriterStep(t) ==
    /\ ltask[t].pc < Len(Program(t))
    /\ LET op == Program(t)[ltask[t].pc + 1] IN
       /\ CASE op.kind = "lock" ->
                  /\ Grantable(op.lock, op.mode)
                  /\ locks' = [locks EXCEPT ![op.lock] =
                                  @ \cup {[task |-> t, lock |-> op.lock, mode |-> op.mode]}]
            [] op.kind = "unlock" ->
                  locks' = [locks EXCEPT ![op.lock] = {h \in @ : h.task # t}]
            [] OTHER -> locks' = locks
       /\ lastOp' = [op |-> op.kind, task |-> t, writer |-> HoldsWrite(t)]
    /\ ltask' = [ltask EXCEPT ![t].pc = @ + 1]
    /\ UNCHANGED <<discVars, connections, outq, regVars, sessVars, taskVars, xferVars,
                   permVars, nextSweep, inbox>>

InitWriters ==
    /\ peers = <<>>
    /\ now = 0
    /\ connections = {}
    /\ outq = [c \in Clients |-> <<>>]
    /\ lastOp = [op |-> "init"]
    /\ nextSweep = 0
    /\ inbox = [c \in Clients |-> [arrived |-> <<>>, waiting |-> <<>>]]
    /\ locks = [l \in WriterLocks |-> {}]
    /\ ltask = [t \in WriterTasks |-> [pc |-> 0]]
    /\ RegistryIdle
    /\ SessionsIdle
    /\ TransferIdle

NextWriters == \E t \in WriterTasks : WriterStep(t)

SpecWriters == InitWriters /\ [][NextWriters]_vars

HistoryCap == 3       \* max_history of the registry of this section

MaxRegistered == 4    \* transfers registered

SentFileSize == 25    \* file_size of the records

\* start_transfer with a new record, as the SendFile arm calls it
RegisterTransfer ==
    /\ nextUuid <= MaxRegistered
    /\ history' = start_transfer(history,
           TransferRecord_new(nextUuid, Some(1), "alpha", "/srv/x.bin", SentFileSize, "sent"))
    /\ nextUuid' = nextUuid + 1
    /\ UNCHANGED <<xferVars, permVars, runtimeVars, discVars, lastOp, connections, outq,
                   sessVars, taskVars>>

\* complete_transfer, fail_transfer or cancel_transfer for a transfer
TerminalTransition(transfer_id, how) ==
    /\ transfer_id < nextUuid
    /\ history' = CASE how = "complete" -> complete_transfer(history, transfer_id, None, TRUE)
                    [] how = "fail" -> fail_transfer(history, transfer_id)
                    [] how = "cancel" -> cancel_transfer(history, transfer_id)
    /\ UNCHANGED <<xferVars, permVars, runtimeVars, discVars, lastOp, connections, outq,
                   nextUuid, sessVars, taskVars>>

InitEviction ==
    /\ peers = <<>>
    /\ now = 0
    /\ connections = {}
    /\ outq = [c \in Clients |-> <<>>]
    /\ lastOp = [op |-> "init"]
    /\ RuntimeIdle
    /\ history = [transfers |-> <<>>, completed_transfers |-> <<>>, max_history |-> HistoryCap]
    /\ nextUuid = 1
    /\ SessionsIdle
    /\ TransferIdle

NextEviction ==
    \/ RegisterTransfer
    \/ \E transfer_id \in 1..MaxRegistered, how \in {"complete", "fail", "cancel"} :
           TerminalTransition(transfer_id, how)

SpecEviction == InitEviction /\ [][NextEviction]_vars

\* C37: a terminal transition of an active transfer puts its record last in
\* the completed sequence; if the sequence was at capacity the record that
\* was first in it (the one that entered earliest) is gone and the others
\* are in front of the new record in the order they had; if it was not,
\* nothing is gone.
C37_EvictsOldestOnly ==
    [][\A id \in DOMAIN history.transfers :
          id \notin DOMAIN history'.transfers =>
              LET old == history.completed_transfers
                  new == history'.completed_transfers
              IN /\ new # <<>>
                 /\ new[Len(new)].transfer_id = id
                 /\ IF Len(old) = history.max_history
                    THEN /\ Len(new) = Len(old)
                         /\ SubSeq(new, 1, Len(new) - 1) = Tail(old)
                    ELSE SubSeq(new, 1, Len(new) - 1) = old]_vars

\* the sequence is at capacity and its oldest record has been evicted: the
\* transfer that finished first is in neither container, and the newest
\* record is behind two older ones
C37_Witness ==
    /\ Len(history.completed_transfers) = history.max_history
    /\ history.max_history >= 3
    /\ \E id \in 1..(nextUuid - 1) :
           /\ id \notin DOMAIN history.transfers
           /\ \A i \in DOMAIN history.completed_transfers :
                  history.completed_transfers[i].transfer_id # id

\* C38: a completed record has speed_bytes_per_sec = file_size divided
\* (integer division) by its duration in seconds, taken as 1 when it is 0; a
\* failed or cancelled record has its end time and duration and no speed.
C38_SpeedOverAtLeastOneSecond ==
    \A i \in DOMAIN history.completed_transfers :
        LET record == history.completed_transfers[i] IN
        /\ record.end_time # None
        /\ record.duration_seconds = Some(record.end_time[1] - record.start_time[1])
        /\ IF record.status = "completed"
           THEN record.speed_bytes_per_sec =
                    Some(record.file_size \div
                             (IF record.duration_seconds[1] > 1
                              THEN record.duration_seconds[1] ELSE 1))
           ELSE record.speed_bytes_per_sec = None

(***************************************************************************)
(* SendChat between two sessions (websocket.rs)                             *)
(***************************************************************************)
SendChatCmd(peer_id, message) ==
    [type |-> "SendChat", peer_id |-> peer_id, message |-> message]

ChatRecipients_TargetOnly(c, target_peer_id) ==
    {cid \in DOMAIN client_to_peer : client_to_peer[cid] = target_peer_id}

\* for (cid, peer_id_map) in client_to_peer.iter():
\* if *peer_id_map == target_peer_id || *cid == client_id
ChatRecipients(c, target_peer_id) ==
    {cid \in DOMAIN client_to_peer : client_to_peer[cid] = target_peer_id \/ cid = c}

\* ClientMessage::SendChat
SendChat(c, peer_id) ==
    /\ CanDispatch(c)
    /\ ncmd' = ncmd + 1
    /\ LET from_peer_id == IF c \in DOMAIN client_to_peer THEN client_to_peer[c]
                           ELSE local_id
           chat_msg == ChatMessageMsg(from_peer_id, peer_id, "hello")
       IN outq' = IF peer_id # None
                  THEN [cid \in DOMAIN outq |->
                           IF cid \in ChatRecipients(c, peer_id[1]) /\ cid \in connections
                           THEN Append(outq[cid], chat_msg)
                           ELSE outq[cid]]
                  ELSE broadcast_to_all(outq, chat_msg)
    /\ pending' = Handled(c, SendChatCmd(peer_id, "hello"), None)
    /\ UNCHANGED <<xferVars, permVars, runtimeVars, discVars, lastOp, connections, regVars, sess, taskVars>>

NextChat ==
    \/ \E c \in Sessions : Connect(c)
    \/ \E c \in Sessions : RecvTaskReturns(c)
    \/ \E c \in Sessions : SendTaskReturnsLast(c)
    \/ \E c \in Sessions : SendTaskEnds(c)
    \/ \E c \in Sessions : SelectAborts(c)
    \/ \E c \in Sessions, peer_id \in {None, Some(local_id), Some(1)} : SendChat(c, peer_id)
    \/ \E c \in Sessions : Reply(c)

SpecChat == InitSessionEnd /\ [][NextChat]_vars

\* the step in which recv_task of session c handles a SendChat
HandlesSendChat(c) ==
    /\ pending[c] = None
    /\ pending'[c] # None
    /\ pending'[c][1].cmd.type = "SendChat"

\* C39: the step that handles a SendChat of session c appends the
\* ChatMessage once to the queue of every connected session bound to the
\* target peer id and to the queue of c, if c is connected, when the command
\* has a target, and once to the queue of every connected session when it has
\* none; it appends nothing to any other queue, and it returns no response.
C39_ChatReachesTargetAndSender ==
    [][\A c \in Sessions :
          HandlesSendChat(c) =>
              LET target == pending'[c][1].cmd.peer_id
                  chat_msg == ChatMessageMsg(local_id, target, pending'[c][1].cmd.message)
              IN /\ pending'[c][1].response = None
                 /\ \A k \in Sessions :
                        Appended(k) =
                            IF k \in connections
                               /\ \/ target = None
                                  \/ client_to_peer[k] = target[1]
                                  \/ k = c
                            THEN <<chat_msg>>
                            ELSE <<>>]_vars

\* with both sessions connected, a SendChat to a peer id no session is bound
\* to has reached the sender only
C39_Witness ==
    \E c \in Sessions, k \in Sessions :
        /\ c # k
        /\ {c, k} \subseteq connections
        /\ pending[c] # None
        /\ pending[c][1].cmd = SendChatCmd(Some(1), "hello")
        /\ Len(outq[c]) = 1
        /\ outq[c][1].type = "ChatMessage"
        /\ outq[k] = <<>>

====
